---------------------------- MODULE Spec2Model ----------------------------
(***************************************************************************)
(* A model of the crawl frontier, the URL canonicalizer / pattern          *)
(* classifier and the session lifecycle of src/server.js.                  *)
(*                                                                         *)
(* URLs are ordinary strings.  The library class URL (WHATWG parser) is    *)
(* modelled by ParseUrl for the grammar                                    *)
(*     scheme ":" ["//" host [":" port]] path ["?" query] ["#" fragment]   *)
(* which covers every string the specifications below feed to it.          *)
(***************************************************************************)
EXTENDS Integers, Sequences, FiniteSets, TLC

(***************************************************************************)
(* Characters and strings                                                  *)
(***************************************************************************)
Ch(s, i) == SubSeq(s, i, i)

LowerStr == "abcdefghijklmnopqrstuvwxyz"

UpperStr == "ABCDEFGHIJKLMNOPQRSTUVWXYZ"

DigitStr == "0123456789"

CharsOf(s) == { Ch(s, i) : i \in 1..Len(s) }

Lower == CharsOf(LowerStr)

Upper == CharsOf(UpperStr)

Digit == CharsOf(DigitStr)

Alpha == Lower \cup Upper

Alnum == Alpha \cup Digit

HexDigit == Digit \cup CharsOf("abcdefABCDEF")

AllIn(s, class) == \A i \in 1..Len(s) : Ch(s, i) \in class

\* String.prototype.toLowerCase on ASCII
toLowerCh(c) ==
    IF c \in Upper
    THEN Ch(LowerStr, CHOOSE i \in 1..26 : Ch(UpperStr, i) = c)
    ELSE c

RECURSIVE toLowerCase(_)
toLowerCase(s) ==
    IF s = "" THEN ""
    ELSE toLowerCh(Ch(s, 1)) \o toLowerCase(SubSeq(s, 2, Len(s)))

\* String.prototype.indexOf for a single character, 0 when absent
IndexOf(s, c) ==
    LET hits == { i \in 1..Len(s) : Ch(s, i) = c }
    IN  IF hits = {} THEN 0 ELSE CHOOSE i \in hits : \A j \in hits : i <= j

\* String.prototype.includes for a single character
Includes(s, c) == IndexOf(s, c) # 0

\* String.prototype.split('/')
RECURSIVE Split(_)
Split(s) ==
    LET k == IndexOf(s, "/")
    IN  IF k = 0 THEN << s >>
        ELSE << SubSeq(s, 1, k - 1) >> \o Split(SubSeq(s, k + 1, Len(s)))

\* Array.prototype.filter(Boolean) on an array of strings
RECURSIVE FilterNonEmpty(_)
FilterNonEmpty(segs) ==
    IF segs = << >> THEN << >>
    ELSE IF Head(segs) = "" THEN FilterNonEmpty(Tail(segs))
         ELSE << Head(segs) >> \o FilterNonEmpty(Tail(segs))

\* Array.prototype.join('/')
RECURSIVE Join(_)
Join(segs) ==
    IF segs = << >> THEN ""
    ELSE IF Len(segs) = 1 THEN Head(segs)
         ELSE Head(segs) \o "/" \o Join(Tail(segs))

(***************************************************************************)
(* new URL(s): the parsed record, ok = FALSE when the constructor throws   *)
(***************************************************************************)
BadUrl ==
    [ ok |-> FALSE, protocol |-> "", origin |-> "", hostname |-> "",
      pathname |-> "", search |-> "", hash |-> "", href |-> "" ]

SpecialSchemes == { "http", "https" }

DefaultPort(scheme) == IF scheme = "http" THEN "80" ELSE "443"

\* the part of s before the first c (all of s when c is absent), from the
\* first c on, and after the first c
BeforeCh(s, c) ==
    IF IndexOf(s, c) = 0 THEN s ELSE SubSeq(s, 1, IndexOf(s, c) - 1)

FromCh(s, c) ==
    IF IndexOf(s, c) = 0 THEN "" ELSE SubSeq(s, IndexOf(s, c), Len(s))

AfterCh(s, c) ==
    IF IndexOf(s, c) = 0 THEN "" ELSE SubSeq(s, IndexOf(s, c) + 1, Len(s))

\* "?" or "#" alone serialize into href but give an empty search / hash
Component(raw) == IF Len(raw) <= 1 THEN "" ELSE raw

Port(scheme, rawPort) == IF rawPort = DefaultPort(scheme) THEN "" ELSE rawPort

Origin(scheme, host, port) ==
    scheme \o "://" \o host \o (IF port = "" THEN "" ELSE ":" \o port)

\* http(s): "//" authority path
ParseAuthority(scheme, auth, path, rawQuery, rawFrag) ==
    LET host    == toLowerCase(BeforeCh(auth, ":"))
        rawPort == AfterCh(auth, ":")
    IN  IF host = "" \/ ~AllIn(rawPort, Digit) THEN BadUrl
        ELSE [ ok |-> TRUE, protocol |-> scheme \o ":",
               origin |-> Origin(scheme, host, Port(scheme, rawPort)),
               hostname |-> host, pathname |-> path,
               search |-> Component(rawQuery), hash |-> Component(rawFrag),
               href |-> Origin(scheme, host, Port(scheme, rawPort))
                           \o path \o rawQuery \o rawFrag ]

ParseSpecial(scheme, body, rawQuery, rawFrag) ==
    LET afterSl == SubSeq(body, 3, Len(body))
    IN  IF SubSeq(body, 1, 2) # "//" THEN BadUrl
        ELSE ParseAuthority(scheme, BeforeCh(afterSl, "/"),
                            IF FromCh(afterSl, "/") = "" THEN "/"
                            ELSE FromCh(afterSl, "/"),
                            rawQuery, rawFrag)

\* mailto:, javascript:, tel: and other schemes without an authority
ParseOpaque(scheme, body, rawQuery, rawFrag) ==
    [ ok |-> TRUE, protocol |-> scheme \o ":", origin |-> "null",
      hostname |-> "", pathname |-> body, search |-> Component(rawQuery),
      hash |-> Component(rawFrag),
      href |-> scheme \o ":" \o body \o rawQuery \o rawFrag ]

ParseRest(scheme, rest) ==
    LET noFrag == BeforeCh(rest, "#")
    IN  IF scheme \in SpecialSchemes
        THEN ParseSpecial(scheme, BeforeCh(noFrag, "?"), FromCh(noFrag, "?"),
                          FromCh(rest, "#"))
        ELSE ParseOpaque(scheme, BeforeCh(noFrag, "?"), FromCh(noFrag, "?"),
                         FromCh(rest, "#"))

ParseUrl(s) ==
    LET scheme == toLowerCase(BeforeCh(s, ":"))
    IN  IF IndexOf(s, ":") <= 1 \/ ~AllIn(scheme, Lower) THEN BadUrl
        ELSE ParseRest(scheme, AfterCh(s, ":"))

(***************************************************************************)
(* normalizeUrl                                                            *)
(***************************************************************************)
\* pathname.replace(/\/$/, '')
StripTrailingSlash(p) ==
    IF Len(p) > 0 /\ Ch(p, Len(p)) = "/" THEN SubSeq(p, 1, Len(p) - 1) ELSE p

\* normalizeUrl returning the empty string for what it cannot parse
normalizeUrl_Blank(url) ==
    LET parsed == ParseUrl(url)
    IN  IF parsed.ok
        THEN parsed.origin \o StripTrailingSlash(parsed.pathname) \o parsed.search
        ELSE ""

normalizeUrl(url) ==
    LET parsed == ParseUrl(url)
    IN  IF parsed.ok
        THEN parsed.origin \o StripTrailingSlash(parsed.pathname) \o parsed.search
        ELSE url

(***************************************************************************)
(* getUrlPattern                                                           *)
(***************************************************************************)
collectionPaths ==
    {
      "product", "products", "item", "items",
      "category", "categories", "cat",
      "collection", "collections",
      "shop", "store", "catalog",
      "brand", "brands",
      "tag", "tags",
      "blog", "blogs", "post", "posts",
      "article", "articles", "news",
      "page", "pages",
      "portfolio", "project", "projects",
      "gallery", "galleries",
      "event", "events",
      "case-study", "case-studies",
      "author", "authors", "user", "users", "profile", "profiles",
      "team", "member", "members",
      "docs", "doc", "documentation", "guide", "guides",
      "tutorial", "tutorials", "lesson", "lessons",
      "topic", "topics", "thread", "threads",
      "forum", "forums", "discussion", "discussions",
      "video", "videos", "photo", "photos", "image", "images",
      "property", "properties", "listing", "listings",
      "apartment", "apartments", "house", "houses",
      "job", "jobs", "career", "careers", "vacancy", "vacancies",
      "service", "services",
      "location", "locations", "city", "cities", "region", "regions" }

\* /^[0-9a-f]{8}-[0-9a-f]{4}-[0-9a-f]{4}-[0-9a-f]{4}-[0-9a-f]{12}$/i
UuidDashes == { 9, 14, 19, 24 }

IsUuid(seg) ==
    /\ Len(seg) = 36
    /\ \A i \in 1..36 :
          IF i \in UuidDashes THEN Ch(seg, i) = "-" ELSE Ch(seg, i) \in HexDigit

\* /^\d+$/
IsNumeric(seg) == Len(seg) > 0 /\ AllIn(seg, Digit)

SlugChar == Alnum \cup { "-", "_" }

\* /^[a-z0-9]+[-_][a-z0-9-_]+$/i
IsSlug(seg) ==
    \E k \in 2..(Len(seg) - 1) :
        /\ AllIn(SubSeq(seg, 1, k - 1), Alnum)
        /\ Ch(seg, k) \in { "-", "_" }
        /\ AllIn(SubSeq(seg, k + 1, Len(seg)), SlugChar)

WordChar == Alpha \cup { "-", "_" }

\* /^[a-z-_]+\d+$/i
IsSlugId(seg) ==
    \E k \in 1..(Len(seg) - 1) :
        /\ AllIn(SubSeq(seg, 1, k), WordChar)
        /\ AllIn(SubSeq(seg, k + 1, Len(seg)), Digit)

\* /%[0-9A-F]{2}/i
HasPercentEncoding(seg) ==
    \E i \in 1..(Len(seg) - 2) :
        /\ Ch(seg, i) = "%"
        /\ Ch(seg, i + 1) \in HexDigit
        /\ Ch(seg, i + 2) \in HexDigit

LongSegment == 50

\* /^\d{4}-\d{2}-\d{2}/
IsDateSlug(seg) ==
    /\ Len(seg) >= 10
    /\ \A i \in 1..10 :
          IF i \in { 5, 8 } THEN Ch(seg, i) = "-" ELSE Ch(seg, i) \in Digit

HashMinLen == 6

HashMaxLen == 12

\* /^[a-z0-9]{6,12}$/i.test(segment) && !/^[a-z]+$/i.test(segment)
IsHash(seg) ==
    /\ Len(seg) >= HashMinLen
    /\ Len(seg) <= HashMaxLen
    /\ AllIn(seg, Alnum)
    /\ ~AllIn(seg, Alpha)

\* ShapeOf trying the slug rule before the UUID and the numeric rule
ShapeOf_SlugFirst(segment, index) ==
    IF index > 0 /\ IsSlug(segment) THEN "{slug}"
    ELSE IF IsUuid(segment) THEN "{uuid}"
    ELSE IF IsNumeric(segment) THEN "{id}"
    ELSE IF index > 0 /\ IsSlugId(segment) THEN "{slug-id}"
    ELSE IF Len(segment) > LongSegment \/ HasPercentEncoding(segment)
         THEN "{dynamic}"
    ELSE IF IsDateSlug(segment) THEN "{date-slug}"
    ELSE IF index > 0 /\ IsHash(segment) THEN "{hash}"
    ELSE segment

\* the shape rules applied to a segment that is neither a collection keyword
\* nor directly after one; index is the 0-based position in pathSegments
ShapeOf(segment, index) ==
    IF IsUuid(segment) THEN "{uuid}"
    ELSE IF IsNumeric(segment) THEN "{id}"
    ELSE IF index > 0 /\ IsSlug(segment) THEN "{slug}"
    ELSE IF index > 0 /\ IsSlugId(segment) THEN "{slug-id}"
    ELSE IF Len(segment) > LongSegment \/ HasPercentEncoding(segment)
         THEN "{dynamic}"
    ELSE IF IsDateSlug(segment) THEN "{date-slug}"
    ELSE IF index > 0 /\ IsHash(segment) THEN "{hash}"
    ELSE segment

\* MapSegments never clearing the afterCollectionPath flag
RECURSIVE MapSegments_FlagSticks(_, _, _)
MapSegments_FlagSticks(segs, index, afterCollectionPath) ==
    IF segs = << >> THEN << >>
    ELSE LET segment == Head(segs)
         IN  IF toLowerCase(segment) \in collectionPaths
             THEN << segment >>
                      \o MapSegments_FlagSticks(Tail(segs), index + 1, TRUE)
             ELSE IF afterCollectionPath
             THEN << "{item}" >>
                      \o MapSegments_FlagSticks(Tail(segs), index + 1, TRUE)
             ELSE << ShapeOf(segment, index) >>
                      \o MapSegments_FlagSticks(Tail(segs), index + 1, FALSE)

\* the callback of pathSegments.map, threading the afterCollectionPath flag
RECURSIVE MapSegments(_, _, _)
MapSegments(segs, index, afterCollectionPath) ==
    IF segs = << >> THEN << >>
    ELSE LET segment == Head(segs)
         IN  IF toLowerCase(segment) \in collectionPaths
             THEN << segment >> \o MapSegments(Tail(segs), index + 1, TRUE)
             ELSE IF afterCollectionPath
             THEN << "{item}" >> \o MapSegments(Tail(segs), index + 1, FALSE)
             ELSE << ShapeOf(segment, index) >>
                      \o MapSegments(Tail(segs), index + 1, FALSE)

\* getUrlPattern keeping every segment as it is
getUrlPattern_KeepsSegments(url) ==
    LET parsed == ParseUrl(url)
        pathSegments == FilterNonEmpty(Split(parsed.pathname))
    IN  IF parsed.ok
        THEN parsed.origin \o "/" \o Join(pathSegments)
        ELSE url

\* getUrlPattern keeping the query string in the pattern
getUrlPattern_KeepsQuery(url) ==
    LET parsed == ParseUrl(url)
        pathSegments == FilterNonEmpty(Split(parsed.pathname))
        patternSegments == MapSegments(pathSegments, 0, FALSE)
    IN  IF parsed.ok
        THEN parsed.origin \o "/" \o Join(patternSegments) \o parsed.search
        ELSE url

getUrlPattern(url) ==
    LET parsed == ParseUrl(url)
        pathSegments == FilterNonEmpty(Split(parsed.pathname))
        patternSegments == MapSegments(pathSegments, 0, FALSE)
    IN  IF parsed.ok
        THEN parsed.origin \o "/" \o Join(patternSegments)
        ELSE url

\* isPatternVisited finding no pattern visited
isPatternVisited_Never(url, patterns) == FALSE

isPatternVisited(url, patterns) == getUrlPattern(url) \in patterns

markPatternVisited(url, patterns) == patterns \cup { getUrlPattern(url) }

(***************************************************************************)
(* isInternalUrl and the link filter of extractLinks                       *)
(***************************************************************************)
\* new URL(testUrl, baseUrl).hostname: an absolute testUrl stands for itself,
\* anything else is resolved against the base and keeps the base's host
ResolvedHostname(testUrl, baseUrl) ==
    IF ParseUrl(testUrl).ok THEN ParseUrl(testUrl).hostname
    ELSE ParseUrl(baseUrl).hostname

isInternalUrl(baseUrl, testUrl) ==
    IF ParseUrl(baseUrl).ok
    THEN ParseUrl(baseUrl).hostname = ResolvedHostname(testUrl, baseUrl)
    ELSE FALSE

\* the second filter: skip anchors, javascript, mailto, tel links
IsCrawlable(link) ==
    LET url == ParseUrl(link)
    IN  IF url.ok
        THEN /\ ~Includes(url.href, "#")
             /\ url.protocol \notin { "javascript:", "mailto:", "tel:" }
        ELSE FALSE

RECURSIVE FilterMapLinks(_, _)
FilterMapLinks(hrefs, baseUrl) ==
    IF hrefs = << >> THEN << >>
    ELSE LET link == Head(hrefs)
             rest == FilterMapLinks(Tail(hrefs), baseUrl)
         IN  IF isInternalUrl(baseUrl, link) /\ IsCrawlable(link)
             THEN << normalizeUrl(link) >> \o rest
             ELSE rest

\* [...new Set(xs)]: first occurrences, in order
RECURSIVE Dedupe(_)
Dedupe(xs) ==
    IF xs = << >> THEN << >>
    ELSE LET init == Dedupe(SubSeq(xs, 1, Len(xs) - 1))
             last == xs[Len(xs)]
         IN  IF \E i \in 1..Len(init) : init[i] = last
             THEN init ELSE Append(init, last)

\* extractLinks applied to the list of a.href values the page evaluates to
extractLinks(hrefs, baseUrl) == Dedupe(FilterMapLinks(hrefs, baseUrl))

(***************************************************************************)
(* The server: sessions, the registry and the crawl task                   *)
(***************************************************************************)
\* ids generateSessionId can return
PairIds == { "s1", "s2" }

\* the id of the session of a server that is asked for one crawl, and the
\* ids a client may name in a request to it
SessionIds == { "s1" }

RequestIds == SessionIds \cup { "s0" }

\* bounds of the model
MaxBudget == 3

MaxCancels == 1

\* the url field of a start-crawl request; "" is the missing url
PortalUrl == "https://x.io:8443/"

\* a paginated listing as the start page
ListUrl == "http://x.io/list?page=1"

\* the start page of a site with item pages
ShopUrl == "http://x.io/start"

StartUrls == { "http://x.io/#top", "junk", PortalUrl, ListUrl, ShopUrl }

\* the anchors (a.href, in document order) of the pages a site can serve:
\* a leaf, a listing, a home page with a repeated, a fragment and an
\* external and an unparsable link, a page linking back, and the home page reordered
Listing ==
    << "http://x.io/product/1", "http://x.io/product/2", "http://x.io/about/" >>

Documents ==
    { << >>,
      Listing,
      << "http://x.io/product/1", "http://x.io/product/1",
         "http://x.io/about#team", "http://y.io/", "junk",
         "http://x.io/about/" >>,
      << "http://x.io/about", "http://x.io/" >>,
      << "http://x.io/about/", "http://x.io/product/1" >> }

\* the pages of the site at PortalUrl: a leaf, and a page linking to the
\* same host over http and to a page of its own
PortalDocuments ==
    { << >>,
      << "http://x.io/b", "https://x.io:8443/b" >> }

\* the pages of the site at ListUrl: a leaf, and a page linking to the next
\* page of the listing, to the listing with a trailing slash and to a page
\* of another path
ListDocuments ==
    { << >>,
      << "http://x.io/list?page=2", "http://x.io/list/",
         "http://x.io/about" >> }

\* the pages of the site at ShopUrl: a page linking to an item and to a
\* help page, and a page linking to a second item
ShopDocuments ==
    { << "http://x.io/item/1", "http://x.io/help" >>,
      << "http://x.io/item/2" >> }

DocumentsOf(startUrl) ==
    IF startUrl = PortalUrl THEN PortalDocuments
    ELSE IF startUrl = ListUrl THEN ListDocuments
    ELSE IF startUrl = ShopUrl THEN ShopDocuments
    ELSE Documents

Titles == { "Home" }

Options == [ maxPages : 1..MaxBudget, smartDedup : BOOLEAN ]

\* the options a start url is crawled with: the site at ShopUrl with pattern
\* dedup and a budget of one page more than the other sites
OptionsOf(url) ==
    IF url = ShopUrl
    THEN { [ maxPages |-> MaxBudget + 1, smartDedup |-> TRUE ] }
    ELSE Options

VARIABLES
    activeSessions,   \* keys of the Map activeSessions
    session,          \* the session object created by start-crawl, per id
    pc,               \* where the crawlWebsite task of an id is suspended
    visited,          \* crawlWebsite locals, per id
    visitedPatterns,
    skippedUrls,
    queue,
    results,
    currentUrl,
    pageNumber,
    title,
    links,
    browser,          \* TRUE once puppeteer.launch has resolved
    sessionDir,       \* TRUE while screenshots/<id> exists on disk
    summary,          \* content of summary.json, NoSummary while absent
    events,           \* what has been emitted to the socket because of an id
    refused,          \* the last request that was answered without a session
    enqueued,         \* every url handed to the queue of an id, in order
    probe,            \* a url under test and what the url functions return
    client            \* the page in the browser (public/app.js) and its socket

vars ==
    << activeSessions, session, pc, visited, visitedPatterns, skippedUrls,
       queue, results, currentUrl, pageNumber, title, links, browser,
       sessionDir, summary, events, refused, enqueued, probe, client >>

\* everything a crawl task owns or emits
crawlVars ==
    << pc, visited, visitedPatterns, skippedUrls, queue, results, currentUrl,
       pageNumber, title, links, browser, summary, events, enqueued >>

NoSession == [ id |-> "", url |-> "", options |-> [ maxPages |-> 1, smartDedup |-> FALSE ],
               cancelled |-> FALSE ]

NoSummary == [ written |-> FALSE ]

NoRequest == [ op |-> "none" ]

NoProbe == [ stage |-> "none" ]

\* the server after start-up: no session, no crawl
ServerInit ==
    /\ activeSessions = {}
    /\ session = [ id \in PairIds |-> NoSession ]
    /\ pc = [ id \in PairIds |-> "idle" ]
    /\ visited = [ id \in PairIds |-> {} ]
    /\ visitedPatterns = [ id \in PairIds |-> {} ]
    /\ skippedUrls = [ id \in PairIds |-> << >> ]
    /\ queue = [ id \in PairIds |-> << >> ]
    /\ results = [ id \in PairIds |-> << >> ]
    /\ currentUrl = [ id \in PairIds |-> "" ]
    /\ pageNumber = [ id \in PairIds |-> 0 ]
    /\ title = [ id \in PairIds |-> "" ]
    /\ links = [ id \in PairIds |-> << >> ]
    /\ browser = [ id \in PairIds |-> FALSE ]
    /\ sessionDir = [ id \in PairIds |-> FALSE ]
    /\ summary = [ id \in PairIds |-> NoSummary ]
    /\ events = [ id \in PairIds |-> << >> ]
    /\ refused = NoRequest
    /\ enqueued = [ id \in PairIds |-> << >> ]

\* public/app.js as loaded: no session id, not crawling; the socket
\* connected and nothing under way on it, no crawl requested
NoSessionId == 0

NoClient ==
    [ currentSessionId |-> NoSessionId, isCrawling |-> FALSE,
      connected |-> TRUE, up |-> << >>, down |-> << >>,
      submitted |-> 0, served |-> 0, running |-> {}, cancelled |-> {},
      clicks |-> << >> ]

Init ==
    /\ ServerInit
    /\ probe = NoProbe
    /\ client = NoClient

(***************************************************************************)
(* socket.emit payloads                                                    *)
(***************************************************************************)
Status(type, message, url) ==
    [ name |-> "status", type |-> type, message |-> message, url |-> url ]

SessionStarted(id) == [ name |-> "session-started", sessionId |-> id ]

Progress(current, total, url) ==
    [ name |-> "progress", current |-> current, total |-> total, url |-> url ]

Screenshot(result) == [ name |-> "screenshot", result |-> result ]

Complete(id, res) ==
    [ name |-> "complete", sessionId |-> id, totalPages |-> Len(res),
      results |-> res ]

Min(a, b) == IF a <= b THEN a ELSE b

Contains(q, x) == \E i \in 1..Len(q) : q[i] = x

(***************************************************************************)
(* crawlWebsite, cut at its await points                                   *)
(***************************************************************************)
\* LoopHead with the budget test off by one (visited.size <= maxPages)
RECURSIVE LoopHead_BudgetOffByOne(_, _, _, _)
LoopHead_BudgetOffByOne(q, vis, maxPages, cancelled) ==
    IF Len(q) > 0 /\ Cardinality(vis) <= maxPages /\ ~cancelled
    THEN IF Head(q) \in vis
         THEN LoopHead_BudgetOffByOne(Tail(q), vis, maxPages, cancelled)
         ELSE [ run |-> TRUE, url |-> Head(q), queue |-> Tail(q) ]
    ELSE [ run |-> FALSE, url |-> "", queue |-> q ]

\* LoopHead taking the newest url of the queue instead of the oldest
RECURSIVE LoopHead_TakesLast(_, _, _, _)
LoopHead_TakesLast(q, vis, maxPages, cancelled) ==
    IF Len(q) > 0 /\ Cardinality(vis) < maxPages /\ ~cancelled
    THEN IF q[Len(q)] \in vis
         THEN LoopHead_TakesLast(SubSeq(q, 1, Len(q) - 1), vis, maxPages,
                                 cancelled)
         ELSE [ run |-> TRUE, url |-> q[Len(q)],
                queue |-> SubSeq(q, 1, Len(q) - 1) ]
    ELSE [ run |-> FALSE, url |-> "", queue |-> q ]

\* LoopHead without the test of session.cancelled
RECURSIVE LoopHead_IgnoresCancel(_, _, _, _)
LoopHead_IgnoresCancel(q, vis, maxPages, cancelled) ==
    IF Len(q) > 0 /\ Cardinality(vis) < maxPages
    THEN IF Head(q) \in vis
         THEN LoopHead_IgnoresCancel(Tail(q), vis, maxPages, cancelled)
         ELSE [ run |-> TRUE, url |-> Head(q), queue |-> Tail(q) ]
    ELSE [ run |-> FALSE, url |-> "", queue |-> q ]

\* the while condition and the dequeue that follows it, repeated through
\* the `continue` of an already visited head
RECURSIVE LoopHead(_, _, _, _)
LoopHead(q, vis, maxPages, cancelled) ==
    IF Len(q) > 0 /\ Cardinality(vis) < maxPages /\ ~cancelled
    THEN IF Head(q) \in vis
         THEN LoopHead(Tail(q), vis, maxPages, cancelled)
         ELSE [ run |-> TRUE, url |-> Head(q), queue |-> Tail(q) ]
    ELSE [ run |-> FALSE, url |-> "", queue |-> q ]

\* TopOfLoop without visited.add(currentUrl)
TopOfLoop_NoVisitedAdd(id, evs) ==
    LET maxPages == session[id].options.maxPages
        h   == LoopHead(queue[id], visited[id], maxPages, session[id].cancelled)
        vis == visited[id]
        n   == Cardinality(vis) + 1
    IN  /\ queue' = [ queue EXCEPT ![id] = h.queue ]
        /\ IF h.run
           THEN /\ visited' = [ visited EXCEPT ![id] = vis ]
                /\ currentUrl' = [ currentUrl EXCEPT ![id] = h.url ]
                /\ pageNumber' = [ pageNumber EXCEPT ![id] = n ]
                /\ events' = [ events EXCEPT ![id] = evs \o
                      << Progress(n, Min(Len(h.queue) + n, maxPages), h.url),
                         Status("info", "Navigating to", h.url) >> ]
                /\ pc' = [ pc EXCEPT ![id] = "goto" ]
           ELSE /\ UNCHANGED visited
                /\ currentUrl' = [ currentUrl EXCEPT ![id] = "" ]
                /\ pageNumber' = [ pageNumber EXCEPT ![id] = 0 ]
                /\ events' = [ events EXCEPT ![id] = evs ]
                /\ pc' = [ pc EXCEPT ![id] = "closing" ]
        \* title and links are scoped to the iteration that ended
        /\ title' = [ title EXCEPT ![id] = "" ]
        /\ links' = [ links EXCEPT ![id] = << >> ]

\* TopOfLoop computing the total of the progress event before queue.shift()
TopOfLoop_TotalBeforeShift(id, evs) ==
    LET maxPages == session[id].options.maxPages
        h   == LoopHead(queue[id], visited[id], maxPages, session[id].cancelled)
        vis == visited[id] \cup { h.url }
        n   == Cardinality(vis)
    IN  /\ queue' = [ queue EXCEPT ![id] = h.queue ]
        /\ IF h.run
           THEN /\ visited' = [ visited EXCEPT ![id] = vis ]
                /\ currentUrl' = [ currentUrl EXCEPT ![id] = h.url ]
                /\ pageNumber' = [ pageNumber EXCEPT ![id] = n ]
                /\ events' = [ events EXCEPT ![id] = evs \o
                      << Progress(n, Min(Len(queue[id]) + n, maxPages), h.url),
                         Status("info", "Navigating to", h.url) >> ]
                /\ pc' = [ pc EXCEPT ![id] = "goto" ]
           ELSE /\ UNCHANGED visited
                /\ currentUrl' = [ currentUrl EXCEPT ![id] = "" ]
                /\ pageNumber' = [ pageNumber EXCEPT ![id] = 0 ]
                /\ events' = [ events EXCEPT ![id] = evs ]
                /\ pc' = [ pc EXCEPT ![id] = "closing" ]
        /\ title' = [ title EXCEPT ![id] = "" ]
        /\ links' = [ links EXCEPT ![id] = << >> ]

\* TopOfLoop reporting the pages still to come as the total
TopOfLoop_TotalIsQueue(id, evs) ==
    LET maxPages == session[id].options.maxPages
        h   == LoopHead(queue[id], visited[id], maxPages, session[id].cancelled)
        vis == visited[id] \cup { h.url }
        n   == Cardinality(vis)
    IN  /\ queue' = [ queue EXCEPT ![id] = h.queue ]
        /\ IF h.run
           THEN /\ visited' = [ visited EXCEPT ![id] = vis ]
                /\ currentUrl' = [ currentUrl EXCEPT ![id] = h.url ]
                /\ pageNumber' = [ pageNumber EXCEPT ![id] = n ]
                /\ events' = [ events EXCEPT ![id] = evs \o
                      << Progress(n, Min(Len(h.queue) + 1, maxPages), h.url),
                         Status("info", "Navigating to", h.url) >> ]
                /\ pc' = [ pc EXCEPT ![id] = "goto" ]
           ELSE /\ UNCHANGED visited
                /\ currentUrl' = [ currentUrl EXCEPT ![id] = "" ]
                /\ pageNumber' = [ pageNumber EXCEPT ![id] = 0 ]
                /\ events' = [ events EXCEPT ![id] = evs ]
                /\ pc' = [ pc EXCEPT ![id] = "closing" ]
        /\ title' = [ title EXCEPT ![id] = "" ]
        /\ links' = [ links EXCEPT ![id] = << >> ]

\* from the loop condition to the next await: either the page.goto of the
\* next page or, the loop left, the browser.close() of the finally block
TopOfLoop(id, evs) ==
    LET maxPages == session[id].options.maxPages
        h   == LoopHead(queue[id], visited[id], maxPages, session[id].cancelled)
        vis == visited[id] \cup { h.url }
        n   == Cardinality(vis)
    IN  /\ queue' = [ queue EXCEPT ![id] = h.queue ]
        /\ IF h.run
           THEN /\ visited' = [ visited EXCEPT ![id] = vis ]
                /\ currentUrl' = [ currentUrl EXCEPT ![id] = h.url ]
                /\ pageNumber' = [ pageNumber EXCEPT ![id] = n ]
                /\ events' = [ events EXCEPT ![id] = evs \o
                      << Progress(n, Min(Len(h.queue) + n, maxPages), h.url),
                         Status("info", "Navigating to", h.url) >> ]
                /\ pc' = [ pc EXCEPT ![id] = "goto" ]
           ELSE /\ UNCHANGED visited
                /\ currentUrl' = [ currentUrl EXCEPT ![id] = "" ]
                /\ pageNumber' = [ pageNumber EXCEPT ![id] = 0 ]
                /\ events' = [ events EXCEPT ![id] = evs ]
                /\ pc' = [ pc EXCEPT ![id] = "closing" ]
        \* title and links are scoped to the iteration that ended
        /\ title' = [ title EXCEPT ![id] = "" ]
        /\ links' = [ links EXCEPT ![id] = << >> ]

Null == "null"

SummaryOf(id) ==
    LET smartDedup == session[id].options.smartDedup
    IN  [ written |-> TRUE,
          startUrl |-> session[id].url,
          pagesProcessed |-> Len(results[id]),
          patternsFound |->
              IF smartDedup THEN Cardinality(visitedPatterns[id]) ELSE Null,
          skippedDuplicates |->
              IF smartDedup THEN Len(skippedUrls[id]) ELSE Null,
          skippedUrls |-> IF smartDedup THEN skippedUrls[id] ELSE << >>,
          results |-> results[id] ]

\* Finish without activeSessions.delete(sessionId)
Finish_KeepsRegistered(id, evs) ==
    \E ioOk \in BOOLEAN :
        IF ioOk /\ sessionDir[id]
        THEN /\ summary' = [ summary EXCEPT ![id] = SummaryOf(id) ]
             /\ events' = [ events EXCEPT ![id] =
                               Append(evs, Complete(id, results[id])) ]
             /\ activeSessions' = activeSessions
             /\ pc' = [ pc EXCEPT ![id] = "done" ]
        ELSE /\ events' = [ events EXCEPT ![id] = evs ]
             /\ pc' = [ pc EXCEPT ![id] = "crashed" ]
             /\ UNCHANGED << summary, activeSessions >>

\* the finally block after browser.close(): write summary.json, emit
\* 'complete', delete the session; a throwing writeFileSync ends the task
Finish(id, evs) ==
    \E ioOk \in BOOLEAN :
        IF ioOk /\ sessionDir[id]
        THEN /\ summary' = [ summary EXCEPT ![id] = SummaryOf(id) ]
             /\ events' = [ events EXCEPT ![id] =
                               Append(evs, Complete(id, results[id])) ]
             /\ activeSessions' = activeSessions \ { id }
             /\ pc' = [ pc EXCEPT ![id] = "done" ]
        ELSE /\ events' = [ events EXCEPT ![id] = evs ]
             /\ pc' = [ pc EXCEPT ![id] = "crashed" ]
             /\ UNCHANGED << summary, activeSessions >>

\* Admit without the queue.includes(link) test
RECURSIVE Admit_NoQueueCheck(_, _, _, _, _)
Admit_NoQueueCheck(ls, q, vis, patterns, smartDedup) ==
    IF ls = << >>
    THEN [ queue |-> q, pushed |-> << >>, skipped |-> << >>,
           emitted |-> << >> ]
    ELSE LET link == Head(ls)
         IN  IF link \notin vis
             THEN IF smartDedup /\ isPatternVisited(link, patterns)
                  THEN LET r == Admit_NoQueueCheck(Tail(ls), q, vis, patterns, smartDedup)
                       IN  [ r EXCEPT
                               !.skipped =
                                   << [ url |-> link,
                                        pattern |-> getUrlPattern(link),
                                        reason |-> "duplicate_pattern" ] >>
                                   \o @,
                               !.emitted =
                                   << Status("warning",
                                             "Skipped (same pattern)", link) >>
                                   \o @ ]
                  ELSE LET r == Admit_NoQueueCheck(Tail(ls), Append(q, link), vis, patterns,
                                      smartDedup)
                       IN  [ r EXCEPT !.pushed = << link >> \o @ ]
             ELSE Admit_NoQueueCheck(Tail(ls), q, vis, patterns, smartDedup)

\* Admit without the visited.has(link) test
RECURSIVE Admit_NoVisitedCheck(_, _, _, _, _)
Admit_NoVisitedCheck(ls, q, vis, patterns, smartDedup) ==
    IF ls = << >>
    THEN [ queue |-> q, pushed |-> << >>, skipped |-> << >>,
           emitted |-> << >> ]
    ELSE LET link == Head(ls)
         IN  IF ~Contains(q, link)
             THEN IF smartDedup /\ isPatternVisited(link, patterns)
                  THEN LET r == Admit_NoVisitedCheck(Tail(ls), q, vis, patterns, smartDedup)
                       IN  [ r EXCEPT
                               !.skipped =
                                   << [ url |-> link,
                                        pattern |-> getUrlPattern(link),
                                        reason |-> "duplicate_pattern" ] >>
                                   \o @,
                               !.emitted =
                                   << Status("warning",
                                             "Skipped (same pattern)", link) >>
                                   \o @ ]
                  ELSE LET r == Admit_NoVisitedCheck(Tail(ls), Append(q, link), vis, patterns,
                                      smartDedup)
                       IN  [ r EXCEPT !.pushed = << link >> \o @ ]
             ELSE Admit_NoVisitedCheck(Tail(ls), q, vis, patterns, smartDedup)

\* links.forEach(...): the queue it leaves, the links it pushed, the skip
\* records and the status events
RECURSIVE Admit(_, _, _, _, _)
Admit(ls, q, vis, patterns, smartDedup) ==
    IF ls = << >>
    THEN [ queue |-> q, pushed |-> << >>, skipped |-> << >>,
           emitted |-> << >> ]
    ELSE LET link == Head(ls)
         IN  IF link \notin vis /\ ~Contains(q, link)
             THEN IF smartDedup /\ isPatternVisited(link, patterns)
                  THEN LET r == Admit(Tail(ls), q, vis, patterns, smartDedup)
                       IN  [ r EXCEPT
                               !.skipped =
                                   << [ url |-> link,
                                        pattern |-> getUrlPattern(link),
                                        reason |-> "duplicate_pattern" ] >>
                                   \o @,
                               !.emitted =
                                   << Status("warning",
                                             "Skipped (same pattern)", link) >>
                                   \o @ ]
                  ELSE LET r == Admit(Tail(ls), Append(q, link), vis, patterns,
                                      smartDedup)
                       IN  [ r EXCEPT !.pushed = << link >> \o @ ]
             ELSE Admit(Tail(ls), q, vis, patterns, smartDedup)

(***************************************************************************)
(* Requests from outside                                                   *)
(***************************************************************************)
\* socket.on('start-crawl') with a url, and crawlWebsite up to its first
\* await; generateSessionId returns an id that was never used before
startCrawl(id, url, options) ==
    /\ pc[id] = "idle"
    /\ url # ""
    /\ session' = [ session EXCEPT ![id] =
                      [ id |-> id, url |-> url, options |-> options,
                        cancelled |-> FALSE ] ]
    /\ activeSessions' = activeSessions \cup { id }
    /\ visited' = [ visited EXCEPT ![id] = {} ]
    /\ visitedPatterns' = [ visitedPatterns EXCEPT ![id] = {} ]
    /\ skippedUrls' = [ skippedUrls EXCEPT ![id] = << >> ]
    /\ queue' = [ queue EXCEPT ![id] = << normalizeUrl(url) >> ]
    /\ enqueued' = [ enqueued EXCEPT ![id] = << normalizeUrl(url) >> ]
    /\ results' = [ results EXCEPT ![id] = << >> ]
    /\ \E mkdirOk \in BOOLEAN :
          IF mkdirOk
          THEN /\ sessionDir' = [ sessionDir EXCEPT ![id] = TRUE ]
               /\ events' = [ events EXCEPT ![id] =
                     << SessionStarted(id),
                        Status("info", "Launching browser...", "") >> ]
               /\ pc' = [ pc EXCEPT ![id] = "launch" ]
          ELSE /\ events' = [ events EXCEPT ![id] = << SessionStarted(id) >> ]
               /\ pc' = [ pc EXCEPT ![id] = "crashed" ]
               /\ UNCHANGED sessionDir
    /\ UNCHANGED << currentUrl, pageNumber, title, links, browser, summary,
                    refused, probe, client >>

\* socket.on('start-crawl') without a url
startCrawlNoUrl ==
    /\ refused' = [ op |-> "start-crawl", message |-> "URL is required" ]
    /\ UNCHANGED << activeSessions, session, sessionDir, crawlVars, probe, client >>

CancelNotice == Status("warning", "Crawl cancelled by user", "")

\* the cancel-crawl requests that found the session so far
CancelCount(id) ==
    Cardinality({ i \in 1..Len(events[id]) : events[id][i] = CancelNotice })

\* cancelCrawl finding every session ever started, live or not
cancelCrawl_FindsEndedSessions(sessionId) ==
    /\ sessionId \in PairIds
    /\ pc[sessionId] # "idle"
    /\ CancelCount(sessionId) < MaxCancels
    /\ session' = [ session EXCEPT ![sessionId].cancelled = TRUE ]
    /\ events' = [ events EXCEPT ![sessionId] = Append(@, CancelNotice) ]
    /\ UNCHANGED << activeSessions, pc, visited, visitedPatterns,
                    skippedUrls, queue, results, currentUrl, pageNumber,
                    title, links, browser, sessionDir, summary, refused,
                    enqueued, probe, client >>

\* cancelCrawl setting the flag of every registered session
cancelCrawl_CancelsAll(sessionId) ==
    IF sessionId \in activeSessions
    THEN /\ CancelCount(sessionId) < MaxCancels
         /\ session' = [ id \in PairIds |->
               IF id \in activeSessions
               THEN [ session[id] EXCEPT !.cancelled = TRUE ]
               ELSE session[id] ]
         /\ events' = [ events EXCEPT ![sessionId] =
               Append(@, CancelNotice) ]
         /\ UNCHANGED << activeSessions, pc, visited, visitedPatterns,
                         skippedUrls, queue, results, currentUrl, pageNumber,
                         title, links, browser, sessionDir, summary, refused,
                         enqueued, probe, client >>
    ELSE /\ refused' = [ op |-> "cancel-crawl", sessionId |-> sessionId,
                           known |-> sessionId \in PairIds
                                       /\ pc[sessionId] # "idle" ]
         /\ UNCHANGED << activeSessions, session, sessionDir, crawlVars,
                         probe, client >>

\* socket.on('cancel-crawl')
cancelCrawl(sessionId) ==
    IF sessionId \in activeSessions
    THEN /\ CancelCount(sessionId) < MaxCancels
         /\ session' = [ session EXCEPT ![sessionId].cancelled = TRUE ]
         /\ events' = [ events EXCEPT ![sessionId] =
               Append(@, CancelNotice) ]
         /\ UNCHANGED << activeSessions, pc, visited, visitedPatterns,
                         skippedUrls, queue, results, currentUrl, pageNumber,
                         title, links, browser, sessionDir, summary, refused,
                         enqueued, probe, client >>
    ELSE /\ refused' = [ op |-> "cancel-crawl", sessionId |-> sessionId,
                           known |-> sessionId \in PairIds
                                       /\ pc[sessionId] # "idle" ]
         /\ UNCHANGED << activeSessions, session, sessionDir, crawlVars,
                         probe, client >>

\* app.delete('/api/sessions/:sessionId')
deleteSession(sessionId) ==
    /\ sessionId \in PairIds
    /\ sessionDir[sessionId]
    /\ sessionDir' = [ sessionDir EXCEPT ![sessionId] = FALSE ]
    /\ summary' = [ summary EXCEPT ![sessionId] = NoSummary ]
    /\ UNCHANGED << activeSessions, session, pc, visited, visitedPatterns,
                    skippedUrls, queue, results, currentUrl, pageNumber, title,
                    links, browser, events, refused, enqueued, probe, client >>

(***************************************************************************)
(* Resumptions of the crawl task                                           *)
(***************************************************************************)
frame ==
    << activeSessions, session, sessionDir, refused, enqueued, probe, client >>

\* launchOk clearing the cancelled flag of the session
launchOk_ClearsCancel(id) ==
    /\ pc[id] = "launch"
    /\ browser' = [ browser EXCEPT ![id] = TRUE ]
    /\ pc' = [ pc EXCEPT ![id] = "newPage" ]
    /\ session' = [ session EXCEPT ![id].cancelled = FALSE ]
    /\ UNCHANGED << visited, visitedPatterns, skippedUrls, queue, results,
                    currentUrl, pageNumber, title, links, summary, events >>
    /\ UNCHANGED << activeSessions, sessionDir, refused, enqueued, probe, client >>

\* puppeteer.launch resolves
launchOk(id) ==
    /\ pc[id] = "launch"
    /\ browser' = [ browser EXCEPT ![id] = TRUE ]
    /\ pc' = [ pc EXCEPT ![id] = "newPage" ]
    /\ UNCHANGED << visited, visitedPatterns, skippedUrls, queue, results,
                    currentUrl, pageNumber, title, links, summary, events >>
    /\ UNCHANGED frame

\* puppeteer.launch rejects: outer catch, then finally without a browser
launchFail(id) ==
    /\ pc[id] = "launch"
    /\ Finish(id, Append(events[id], Status("error", "Crawl error", "")))
    /\ UNCHANGED << visited, visitedPatterns, skippedUrls, queue, results,
                    currentUrl, pageNumber, title, links, browser >>
    /\ UNCHANGED << session, sessionDir, refused, enqueued, probe, client >>

\* browser.newPage resolves
newPageOk(id) ==
    /\ pc[id] = "newPage"
    /\ pc' = [ pc EXCEPT ![id] = "setViewport" ]
    /\ UNCHANGED << visited, visitedPatterns, skippedUrls, queue, results,
                    currentUrl, pageNumber, title, links, browser, summary,
                    events >>
    /\ UNCHANGED frame

\* browser.newPage or page.setViewport rejects: outer catch, then finally
setupFail(id) ==
    /\ pc[id] \in { "newPage", "setViewport" }
    /\ events' = [ events EXCEPT ![id] =
                      Append(@, Status("error", "Crawl error", "")) ]
    /\ pc' = [ pc EXCEPT ![id] = "closing" ]
    /\ UNCHANGED << visited, visitedPatterns, skippedUrls, queue, results,
                    currentUrl, pageNumber, title, links, browser, summary >>
    /\ UNCHANGED frame

\* page.setViewport resolves: first evaluation of the loop condition
setViewportOk(id) ==
    /\ pc[id] = "setViewport"
    /\ TopOfLoop(id, events[id])
    /\ UNCHANGED << visitedPatterns, skippedUrls, results, browser, summary >>
    /\ UNCHANGED frame

\* page.goto resolves
gotoOk(id) ==
    /\ pc[id] = "goto"
    /\ ParseUrl(currentUrl[id]).ok
    /\ pc' = [ pc EXCEPT ![id] = "wait" ]
    /\ UNCHANGED << visited, visitedPatterns, skippedUrls, queue, results,
                    currentUrl, pageNumber, title, links, browser, summary,
                    events >>
    /\ UNCHANGED frame

\* the waitAfterLoad timer fires
waitDone(id) ==
    /\ pc[id] = "wait"
    /\ pc' = [ pc EXCEPT ![id] = "title" ]
    /\ UNCHANGED << visited, visitedPatterns, skippedUrls, queue, results,
                    currentUrl, pageNumber, title, links, browser, summary,
                    events >>
    /\ UNCHANGED frame

\* page.title resolves
titleOk(id) ==
    /\ pc[id] = "title"
    /\ \E t \in Titles : title' = [ title EXCEPT ![id] = t ]
    /\ pc' = [ pc EXCEPT ![id] = "extract" ]
    /\ UNCHANGED << visited, visitedPatterns, skippedUrls, queue, results,
                    currentUrl, pageNumber, links, browser, summary, events >>
    /\ UNCHANGED frame

\* what extractLinks(page, startUrl) can return: the page evaluates to any
\* of the documents of the site
PageLinks ==
    [ startUrl \in StartUrls |->
        { extractLinks(hrefs, startUrl) : hrefs \in DocumentsOf(startUrl) } ]

\* extractOk recording the pattern of the page after its links were
\* evaluated
extractOk_MarksAfter(id) ==
    /\ pc[id] = "extract"
    /\ \E found \in PageLinks[session[id].url] :
          LET smartDedup == session[id].options.smartDedup
              patterns == IF smartDedup
                          THEN markPatternVisited(currentUrl[id],
                                                  visitedPatterns[id])
                          ELSE visitedPatterns[id]
              marked   == IF smartDedup
                          THEN << Status("info", "Pattern detected",
                                         getUrlPattern(currentUrl[id])) >>
                          ELSE << >>
              a        == Admit(found, queue[id], visited[id],
                                visitedPatterns[id], smartDedup)
          IN  /\ links' = [ links EXCEPT ![id] = found ]
              /\ visitedPatterns' = [ visitedPatterns EXCEPT ![id] = patterns ]
              /\ queue' = [ queue EXCEPT ![id] = a.queue ]
              /\ enqueued' = [ enqueued EXCEPT ![id] = @ \o a.pushed ]
              /\ skippedUrls' = [ skippedUrls EXCEPT ![id] = @ \o a.skipped ]
              /\ events' = [ events EXCEPT ![id] =
                    @ \o marked \o a.emitted
                      \o << Status("info", "Taking screenshot of",
                                   currentUrl[id]) >> ]
    /\ pc' = [ pc EXCEPT ![id] = "scroll" ]
    /\ UNCHANGED << visited, results, currentUrl, pageNumber, title, browser,
                    summary >>
    /\ UNCHANGED << activeSessions, session, sessionDir, refused, probe, client >>

\* page.evaluate of extractLinks resolves; pattern marking and link
\* admission run up to the first await of takeFullPageScreenshot
extractOk(id) ==
    /\ pc[id] = "extract"
    /\ \E found \in PageLinks[session[id].url] :
          LET smartDedup == session[id].options.smartDedup
              patterns == IF smartDedup
                          THEN markPatternVisited(currentUrl[id],
                                                  visitedPatterns[id])
                          ELSE visitedPatterns[id]
              marked   == IF smartDedup
                          THEN << Status("info", "Pattern detected",
                                         getUrlPattern(currentUrl[id])) >>
                          ELSE << >>
              a        == Admit(found, queue[id], visited[id], patterns,
                                smartDedup)
          IN  /\ links' = [ links EXCEPT ![id] = found ]
              /\ visitedPatterns' = [ visitedPatterns EXCEPT ![id] = patterns ]
              /\ queue' = [ queue EXCEPT ![id] = a.queue ]
              /\ enqueued' = [ enqueued EXCEPT ![id] = @ \o a.pushed ]
              /\ skippedUrls' = [ skippedUrls EXCEPT ![id] = @ \o a.skipped ]
              /\ events' = [ events EXCEPT ![id] =
                    @ \o marked \o a.emitted
                      \o << Status("info", "Taking screenshot of",
                                   currentUrl[id]) >> ]
    /\ pc' = [ pc EXCEPT ![id] = "scroll" ]
    /\ UNCHANGED << visited, results, currentUrl, pageNumber, title, browser,
                    summary >>
    /\ UNCHANGED << activeSessions, session, sessionDir, refused, probe, client >>

\* the scrolling page.evaluate of takeFullPageScreenshot resolves
scrollOk(id) ==
    /\ pc[id] = "scroll"
    /\ pc' = [ pc EXCEPT ![id] = "settle" ]
    /\ UNCHANGED << visited, visitedPatterns, skippedUrls, queue, results,
                    currentUrl, pageNumber, title, links, browser, summary,
                    events >>
    /\ UNCHANGED frame

\* the 500 ms timer of takeFullPageScreenshot fires
settleDone(id) ==
    /\ pc[id] = "settle"
    /\ pc' = [ pc EXCEPT ![id] = "shot" ]
    /\ UNCHANGED << visited, visitedPatterns, skippedUrls, queue, results,
                    currentUrl, pageNumber, title, links, browser, summary,
                    events >>
    /\ UNCHANGED frame

PageResult(id) ==
    [ id |-> pageNumber[id], url |-> currentUrl[id],
      title |-> IF title[id] = "" THEN "Untitled" ELSE title[id],
      screenshot |-> pageNumber[id], linksFound |-> Len(links[id]),
      failed |-> FALSE ]

\* ErrorResult numbered by the length of the result log
ErrorResult_CountsResults(id) ==
    [ id |-> Len(results[id]), url |-> currentUrl[id], title |-> "Error",
      failed |-> TRUE ]

ErrorResult(id) ==
    [ id |-> pageNumber[id], url |-> currentUrl[id], title |-> "Error",
      failed |-> TRUE ]

\* shotOk dropping the record of the page when the session was cancelled
shotOk_DropsCancelled(id) ==
    /\ pc[id] = "shot"
    /\ sessionDir[id]
    /\ results' = [ results EXCEPT ![id] =
          IF session[id].cancelled THEN @ ELSE Append(@, PageResult(id)) ]
    /\ TopOfLoop(id, events[id] \o
          << Screenshot(PageResult(id)),
             Status("success", "Completed", currentUrl[id]) >>)
    /\ UNCHANGED << visitedPatterns, skippedUrls, browser, summary >>
    /\ UNCHANGED frame

\* page.screenshot resolves: the result is recorded and the loop goes round
shotOk(id) ==
    /\ pc[id] = "shot"
    /\ sessionDir[id]
    /\ results' = [ results EXCEPT ![id] = Append(@, PageResult(id)) ]
    /\ TopOfLoop(id, events[id] \o
          << Screenshot(PageResult(id)),
             Status("success", "Completed", currentUrl[id]) >>)
    /\ UNCHANGED << visitedPatterns, skippedUrls, browser, summary >>
    /\ UNCHANGED frame

\* pageFail leaving the loop after the failure record
pageFail_Aborts(id) ==
    /\ pc[id] \in { "goto", "title", "extract", "scroll", "shot" }
    /\ results' = [ results EXCEPT ![id] = Append(@, ErrorResult(id)) ]
    /\ events' = [ events EXCEPT ![id] =
          Append(@, Status("error", "Failed to capture", currentUrl[id])) ]
    /\ pc' = [ pc EXCEPT ![id] = "closing" ]
    /\ UNCHANGED << visited, queue, currentUrl, pageNumber, title, links >>
    /\ UNCHANGED << visitedPatterns, skippedUrls, browser, summary >>
    /\ UNCHANGED frame

\* pageFail navigating to the failed page again
pageFail_Retries(id) ==
    /\ pc[id] \in { "goto", "title", "extract", "scroll", "shot" }
    /\ results' = [ results EXCEPT ![id] = Append(@, ErrorResult(id)) ]
    /\ events' = [ events EXCEPT ![id] = @ \o
          << Status("error", "Failed to capture", currentUrl[id]),
             Progress(pageNumber[id],
                      Min(Len(queue[id]) + Cardinality(visited[id]),
                          session[id].options.maxPages),
                      currentUrl[id]),
             Status("info", "Navigating to", currentUrl[id]) >> ]
    /\ pc' = [ pc EXCEPT ![id] = "goto" ]
    /\ UNCHANGED << visited, queue, currentUrl, pageNumber, title, links >>
    /\ UNCHANGED << visitedPatterns, skippedUrls, browser, summary >>
    /\ UNCHANGED frame

\* pageFail recording the pattern of the page that failed
pageFail_RecordsPattern(id) ==
    /\ pc[id] \in { "goto", "title", "extract", "scroll", "shot" }
    /\ results' = [ results EXCEPT ![id] = Append(@, ErrorResult(id)) ]
    /\ TopOfLoop(id, Append(events[id],
          Status("error", "Failed to capture", currentUrl[id])))
    /\ visitedPatterns' = [ visitedPatterns EXCEPT ![id] =
          IF session[id].options.smartDedup
          THEN markPatternVisited(currentUrl[id], @)
          ELSE @ ]
    /\ UNCHANGED << skippedUrls, browser, summary >>
    /\ UNCHANGED frame

\* an await of the iteration rejects: inner catch, then the loop goes round
pageFail(id) ==
    /\ pc[id] \in { "goto", "title", "extract", "scroll", "shot" }
    /\ results' = [ results EXCEPT ![id] = Append(@, ErrorResult(id)) ]
    /\ TopOfLoop(id, Append(events[id],
          Status("error", "Failed to capture", currentUrl[id])))
    /\ UNCHANGED << visitedPatterns, skippedUrls, browser, summary >>
    /\ UNCHANGED frame

\* browser.close resolves: the rest of the finally block
closeOk(id) ==
    /\ pc[id] = "closing"
    /\ Finish(id, events[id])
    /\ UNCHANGED << visited, visitedPatterns, skippedUrls, queue, results,
                    currentUrl, pageNumber, title, links, browser >>
    /\ UNCHANGED << session, sessionDir, refused, enqueued, probe, client >>

\* browser.close rejects: the finally block is abandoned
closeFail(id) ==
    /\ pc[id] = "closing"
    /\ pc' = [ pc EXCEPT ![id] = "crashed" ]
    /\ UNCHANGED << visited, visitedPatterns, skippedUrls, queue, results,
                    currentUrl, pageNumber, title, links, browser, summary,
                    events >>
    /\ UNCHANGED frame

Next ==
    \/ \E id \in SessionIds, url \in StartUrls :
           \E options \in OptionsOf(url) : startCrawl(id, url, options)
    \/ startCrawlNoUrl
    \/ \E sessionId \in RequestIds : cancelCrawl(sessionId)
    \/ \E sessionId \in RequestIds : deleteSession(sessionId)
    \/ \E id \in SessionIds : launchOk(id)
    \/ \E id \in SessionIds : launchFail(id)
    \/ \E id \in SessionIds : newPageOk(id)
    \/ \E id \in SessionIds : setupFail(id)
    \/ \E id \in SessionIds : setViewportOk(id)
    \/ \E id \in SessionIds : gotoOk(id)
    \/ \E id \in SessionIds : waitDone(id)
    \/ \E id \in SessionIds : titleOk(id)
    \/ \E id \in SessionIds : extractOk(id)
    \/ \E id \in SessionIds : scrollOk(id)
    \/ \E id \in SessionIds : settleDone(id)
    \/ \E id \in SessionIds : shotOk(id)
    \/ \E id \in SessionIds : pageFail(id)
    \/ \E id \in SessionIds : closeOk(id)
    \/ \E id \in SessionIds : closeFail(id)

Spec == Init /\ [][Next]_vars

(***************************************************************************)
(* Two clients: the socket handlers and every resumption of the crawl task *)
(* for two session ids, interleaved as the event loop can interleave them  *)
(***************************************************************************)
PairUrls == { PortalUrl }

PairOptions == { [ maxPages |-> 1, smartDedup |-> TRUE ] }

\* generateSessionId hands out the ids in order
FreshId(id) == id = "s1" \/ pc["s1"] # "idle"

NextPair ==
    \/ \E id \in PairIds, url \in PairUrls, options \in PairOptions :
           FreshId(id) /\ startCrawl(id, url, options)
    \/ \E sessionId \in PairIds : cancelCrawl(sessionId)
    \/ \E id \in PairIds : launchOk(id)
    \/ \E id \in PairIds : launchFail(id)
    \/ \E id \in PairIds : newPageOk(id)
    \/ \E id \in PairIds : setupFail(id)
    \/ \E id \in PairIds : setViewportOk(id)
    \/ \E id \in PairIds : gotoOk(id)
    \/ \E id \in PairIds : waitDone(id)
    \/ \E id \in PairIds : titleOk(id)
    \/ \E id \in PairIds : extractOk(id)
    \/ \E id \in PairIds : scrollOk(id)
    \/ \E id \in PairIds : settleDone(id)
    \/ \E id \in PairIds : shotOk(id)
    \/ \E id \in PairIds : pageFail(id)
    \/ \E id \in PairIds : closeOk(id)
    \/ \E id \in PairIds : closeFail(id)

SpecPair == Init /\ [][NextPair]_vars

(***************************************************************************)
(* normalizeUrl and getUrlPattern on their own: a pair of urls is drawn and *)
(* one of the two functions is applied to both                             *)
(***************************************************************************)
\* urls that differ by a trailing slash, a fragment, a query, the scheme,
\* the port or the case of the host; one without authority; unparsable ones
CanonUrls ==
    { "http://x.io", "http://x.io/", "http://x.io/a", "http://x.io/a/",
      "http://x.io/a//", "http://x.io/a#f", "http://x.io/a/#g",
      "http://x.io/a?q=1", "http://x.io/a?q=2", "http://x.io/a/?q=1",
      "https://x.io:8443/a", "http://x.io:80/a", "HTTP://X.io/a",
      "mailto:a@x.io", "junk", "//x.io/a", "http://", "" }

ProbeOrigins == { "https://x.com", "http://x.io:8080" }

\* pairs of item segments after a collection keyword
ItemPairs == { << "1234", "5678" >>, << "red-shoes", "x" >> }

\* first segments that are no collection keyword: a word, a word in capitals,
\* a word of LongSegment letters and one letter more, a word with digits
FirstSegments ==
    { "about", "About", "contact",
      "abcdefghijabcdefghijabcdefghijabcdefghijabcdefghij",
      "abcdefghijabcdefghijabcdefghijabcdefghijabcdefghijk",
      "about2", "2024" }

ClassifyPairs ==
    { << o \o "/" \o k \o "/" \o xy[1], o \o "/" \o k \o "/" \o xy[2] >> :
         o \in ProbeOrigins, k \in collectionPaths \cup { "Product" },
         xy \in ItemPairs }
    \cup { << o \o "/" \o w, o \o "/" \o w \o sfx >> :
              o \in ProbeOrigins, w \in FirstSegments,
              sfx \in { "", "/", "?x=1" } }

\* keywords in three spellings, followed by a keyword or not
OuterKeywords == { "product", "Blog", "case-study" }

InnerKeywords == { "Tags", "items" }

\* the segments after the item
TailSegments == { "1234", "red-shoes", "about", "item9", "a1b2c3d4" }

\* origin/k/a/b paired with origin/k/k2/a/b
NestedPairs ==
    { << o \o "/" \o k \o "/" \o a \o "/" \o b,
         o \o "/" \o k \o "/" \o k2 \o "/" \o a \o "/" \o b >> :
         o \in ProbeOrigins, k \in OuterKeywords, k2 \in InnerKeywords,
         a \in { "1234", "about" }, b \in TailSegments }

\* segments that more than one shape rule matches, and segments at the
\* limits of a rule: a UUID, digits, slugs, a word with digits, a date,
\* a percent-encoded segment, long segments, alphanumerics of 5 to 13
ShapeSegments ==
    { "123e4567-e89b-12d3-a456-426614174000", "12345678", "1234",
      "red-shoes", "post-123", "item9", "2024-01-15-news", "2024-01-15",
      "a%20b", "caf%C3%A9-menu",
      "abcdefghijabcdefghijabcdefghijabcdefghijabcdefghijk",
      "abcdefghijabcdefghijabcdefghijabcdefghijabcdefgh-jk",
      "a1b2c", "a1b2c3", "a1b2c3d4", "a1b2c3d4e5f6", "a1b2c3d4e5f6g",
      "abcdef", "about" }

\* a segment as the first segment, paired with it as the second one
ShapePairs ==
    { << o \o "/" \o s, o \o "/about/" \o s >> :
         o \in ProbeOrigins, s \in ShapeSegments }

ProbePairs ==
    (CanonUrls \X CanonUrls) \cup ClassifyPairs \cup NestedPairs
        \cup ShapePairs

InitUrl ==
    /\ ServerInit
    /\ client = NoClient
    /\ probe \in { [ stage |-> "input", u |-> uv[1], v |-> uv[2] ] :
                      uv \in ProbePairs }

canonicalize ==
    /\ probe.stage = "input"
    /\ probe' = [ stage |-> "canonicalized", u |-> probe.u, v |-> probe.v,
                  outU |-> normalizeUrl(probe.u),
                  outV |-> normalizeUrl(probe.v) ]
    /\ UNCHANGED << activeSessions, session, sessionDir, crawlVars, refused,
                    client >>

classify ==
    /\ probe.stage = "input"
    /\ probe' = [ stage |-> "classified", u |-> probe.u, v |-> probe.v,
                  outU |-> getUrlPattern(probe.u),
                  outV |-> getUrlPattern(probe.v) ]
    /\ UNCHANGED << activeSessions, session, sessionDir, crawlVars, refused,
                    client >>

NextUrl ==
    \/ canonicalize
    \/ classify

SpecUrl == InitUrl /\ [][NextUrl]_vars

(***************************************************************************)
(* The page in the browser: public/app.js talking to the server over one   *)
(* socket. Messages travel in order in each direction: `up' holds what the *)
(* page has emitted and the server has not handled yet, `down' what the    *)
(* server has emitted and the page has not handled yet. The crawl itself   *)
(* is reduced to its first and its last emission. The n-th crawl the       *)
(* server starts gets the session id n.                                    *)
(***************************************************************************)
\* crawls the user submits
MaxCrawls == 2

\* clicks on the cancel button
MaxClicks == 2

clientFrame ==
    << activeSessions, session, sessionDir, crawlVars, refused, probe >>

\* the crawl form is submitted with a valid url
submit ==
    /\ ~client.isCrawling
    /\ client.submitted < MaxCrawls
    /\ client' = [ client EXCEPT
                     !.up = Append(@, [ type |-> "start-crawl",
                                        sessionId |-> NoSessionId ]),
                     !.isCrawling = TRUE,
                     !.submitted = @ + 1 ]
    /\ UNCHANGED clientFrame

\* a click on the cancel button, which is disabled unless isCrawling
cancelClick ==
    /\ client.isCrawling
    /\ Len(client.clicks) < MaxClicks
    /\ client' = [ client EXCEPT
                     !.up = IF client.currentSessionId # NoSessionId
                            THEN Append(@, [ type |-> "cancel-crawl",
                                             sessionId |->
                                                 client.currentSessionId ])
                            ELSE @,
                     !.clicks = Append(@,
                         [ crawl |-> client.submitted,
                           sent |-> client.currentSessionId,
                           live |-> \/ client.submitted \in client.running
                                    \/ client.served < client.submitted ]) ]
    /\ UNCHANGED clientFrame

\* socket.on('session-started') of the page
onSessionStarted ==
    /\ client.down # << >>
    /\ Head(client.down).type = "session-started"
    /\ client' = [ client EXCEPT
                     !.currentSessionId = Head(client.down).sessionId,
                     !.down = Tail(@) ]
    /\ UNCHANGED clientFrame

\* socket.on('complete') of the page
onComplete ==
    /\ client.down # << >>
    /\ Head(client.down).type = "complete"
    /\ client' = [ client EXCEPT !.isCrawling = FALSE, !.down = Tail(@) ]
    /\ UNCHANGED clientFrame

\* socket.on('start-crawl') of the server, as far as the page sees it
serveStartCrawl ==
    /\ client.up # << >>
    /\ Head(client.up).type = "start-crawl"
    /\ LET sessionId == client.served + 1
       IN  client' = [ client EXCEPT
                         !.up = Tail(@),
                         !.served = sessionId,
                         !.running = @ \cup { sessionId },
                         !.down = Append(@, [ type |-> "session-started",
                                              sessionId |-> sessionId ]) ]
    /\ UNCHANGED clientFrame

\* socket.on('cancel-crawl') of the server, as far as the page sees it
serveCancelCrawl ==
    /\ client.up # << >>
    /\ Head(client.up).type = "cancel-crawl"
    /\ LET sessionId == Head(client.up).sessionId
       IN  client' = [ client EXCEPT
                         !.up = Tail(@),
                         !.cancelled = IF sessionId \in client.running
                                       THEN @ \cup { sessionId }
                                       ELSE @ ]
    /\ UNCHANGED clientFrame

\* the finally block of crawlWebsite, as far as the page sees it
serveComplete ==
    /\ \E sessionId \in client.running :
          client' = [ client EXCEPT
                        !.running = @ \ { sessionId },
                        !.down = Append(@, [ type |-> "complete",
                                             sessionId |-> sessionId ]) ]
    /\ UNCHANGED clientFrame

NextClient ==
    \/ submit
    \/ cancelClick
    \/ onSessionStarted
    \/ onComplete
    \/ serveStartCrawl
    \/ serveCancelCrawl
    \/ serveComplete

SpecClient == Init /\ [][NextClient]_vars

(***************************************************************************)
(* A crawl whose observer goes away: the socket that started the session   *)
(* disconnects while the task of the session is running                    *)
(***************************************************************************)
\* socket.on('disconnect') of the server: a line on the console
disconnect ==
    /\ client.connected
    /\ \E id \in activeSessions : pc[id] \notin { "done", "crashed" }
    /\ client' = [ client EXCEPT !.connected = FALSE ]
    /\ UNCHANGED clientFrame

ObserverUrls == { ListUrl }

NextObserver ==
    \/ disconnect
    \/ \E id \in SessionIds, url \in ObserverUrls, options \in Options :
           startCrawl(id, url, options)
    \/ \E sessionId \in RequestIds : cancelCrawl(sessionId)
    \/ \E sessionId \in RequestIds : deleteSession(sessionId)
    \/ \E id \in SessionIds : launchOk(id)
    \/ \E id \in SessionIds : launchFail(id)
    \/ \E id \in SessionIds : newPageOk(id)
    \/ \E id \in SessionIds : setupFail(id)
    \/ \E id \in SessionIds : setViewportOk(id)
    \/ \E id \in SessionIds : gotoOk(id)
    \/ \E id \in SessionIds : waitDone(id)
    \/ \E id \in SessionIds : titleOk(id)
    \/ \E id \in SessionIds : extractOk(id)
    \/ \E id \in SessionIds : scrollOk(id)
    \/ \E id \in SessionIds : settleDone(id)
    \/ \E id \in SessionIds : shotOk(id)
    \/ \E id \in SessionIds : pageFail(id)
    \/ \E id \in SessionIds : closeOk(id)
    \/ \E id \in SessionIds : closeFail(id)

SpecObserver == Init /\ [][NextObserver]_vars

(***************************************************************************)
(* Single-page video sessions: socket.on('start-video') and                *)
(* recordSinglePageVideo. They share the registry activeSessions with the  *)
(* crawls; pc, browser, sessionDir, summary and events are used per id as  *)
(* for a crawl.                                                            *)
(***************************************************************************)
VideoUrls == { "http://x.io/" }

VideoSessionStarted(id) ==
    [ name |-> "video-session-started", sessionId |-> id ]

VideoComplete(url) == [ name |-> "video-complete", url |-> url ]

VideoError == [ name |-> "video-error" ]

\* what a video session leaves alone
videoFrame ==
    << visited, visitedPatterns, skippedUrls, queue, results, currentUrl,
       pageNumber, title, links, refused, enqueued, probe, client >>

\* socket.on('start-video') with a url, and recordSinglePageVideo up to its
\* first await
startVideo(id, url) ==
    /\ pc[id] = "idle"
    /\ url # ""
    /\ session' = [ session EXCEPT ![id] =
                      [ id |-> id, url |-> url, type |-> "video" ] ]
    /\ activeSessions' = activeSessions \cup { id }
    /\ \E mkdirOk \in BOOLEAN :
          IF mkdirOk
          THEN /\ sessionDir' = [ sessionDir EXCEPT ![id] = TRUE ]
               /\ events' = [ events EXCEPT ![id] =
                     << VideoSessionStarted(id),
                        Status("info", "Launching browser...", "") >> ]
               /\ pc' = [ pc EXCEPT ![id] = "vLaunch" ]
          ELSE /\ events' = [ events EXCEPT ![id] =
                     << VideoSessionStarted(id) >> ]
               /\ pc' = [ pc EXCEPT ![id] = "crashed" ]
               /\ UNCHANGED sessionDir
    /\ UNCHANGED << browser, summary >>
    /\ UNCHANGED videoFrame

\* puppeteer.launch resolves
videoLaunchOk(id) ==
    /\ pc[id] = "vLaunch"
    /\ browser' = [ browser EXCEPT ![id] = TRUE ]
    /\ pc' = [ pc EXCEPT ![id] = "vNewPage" ]
    /\ UNCHANGED << activeSessions, session, sessionDir, summary, events >>
    /\ UNCHANGED videoFrame

\* browser.newPage resolves
videoNewPageOk(id) ==
    /\ pc[id] = "vNewPage"
    /\ pc' = [ pc EXCEPT ![id] = "vSetViewport" ]
    /\ UNCHANGED << activeSessions, session, sessionDir, summary, events,
                    browser >>
    /\ UNCHANGED videoFrame

\* page.setViewport resolves
videoSetViewportOk(id) ==
    /\ pc[id] = "vSetViewport"
    /\ events' = [ events EXCEPT ![id] =
          Append(@, Status("info", "Navigating to", session[id].url)) ]
    /\ pc' = [ pc EXCEPT ![id] = "vGoto" ]
    /\ UNCHANGED << activeSessions, session, sessionDir, summary, browser >>
    /\ UNCHANGED videoFrame

\* page.goto resolves
videoGotoOk(id) ==
    /\ pc[id] = "vGoto"
    /\ pc' = [ pc EXCEPT ![id] = "vWait" ]
    /\ UNCHANGED << activeSessions, session, sessionDir, summary, events,
                    browser >>
    /\ UNCHANGED videoFrame

\* the waitAfterLoad timer fires
videoWaitDone(id) ==
    /\ pc[id] = "vWait"
    /\ pc' = [ pc EXCEPT ![id] = "vTitle" ]
    /\ UNCHANGED << activeSessions, session, sessionDir, summary, events,
                    browser >>
    /\ UNCHANGED videoFrame

\* page.title resolves
videoTitleOk(id) ==
    /\ pc[id] = "vTitle"
    /\ events' = [ events EXCEPT ![id] =
          Append(@, Status("info", "Recording", session[id].url)) ]
    /\ pc' = [ pc EXCEPT ![id] = "vRecord" ]
    /\ UNCHANGED << activeSessions, session, sessionDir, summary, browser >>
    /\ UNCHANGED videoFrame

\* the catch block of recordSinglePageVideo
VideoCaught(evs) ==
    evs \o << Status("error", "Video recording error", ""), VideoError >>

\* recordPageVideo resolves: 'video-complete', then the summary is written,
\* or writeFileSync throws into the catch block; then the finally block up
\* to browser.close()
recordOk(id) ==
    /\ pc[id] = "vRecord"
    /\ \E writeOk \in BOOLEAN :
          LET evs == Append(events[id], VideoComplete(session[id].url))
          IN  IF writeOk
              THEN /\ summary' = [ summary EXCEPT ![id] =
                         [ written |-> TRUE, url |-> session[id].url ] ]
                   /\ events' = [ events EXCEPT ![id] = evs ]
              ELSE /\ events' = [ events EXCEPT ![id] = VideoCaught(evs) ]
                   /\ UNCHANGED summary
    /\ pc' = [ pc EXCEPT ![id] = "vClosing" ]
    /\ UNCHANGED << activeSessions, session, sessionDir, browser >>
    /\ UNCHANGED videoFrame

\* an await of the try block rejects: catch, then the finally block up to
\* browser.close(), or to its end when no browser was launched
videoFail(id) ==
    /\ pc[id] \in { "vLaunch", "vNewPage", "vSetViewport", "vGoto", "vTitle",
                    "vRecord" }
    /\ events' = [ events EXCEPT ![id] = VideoCaught(@) ]
    /\ IF browser[id]
       THEN /\ pc' = [ pc EXCEPT ![id] = "vClosing" ]
            /\ UNCHANGED activeSessions
       ELSE /\ pc' = [ pc EXCEPT ![id] = "done" ]
            /\ activeSessions' = activeSessions \ { id }
    /\ UNCHANGED << session, sessionDir, summary, browser >>
    /\ UNCHANGED videoFrame

\* browser.close resolves: activeSessions.delete
videoCloseOk(id) ==
    /\ pc[id] = "vClosing"
    /\ activeSessions' = activeSessions \ { id }
    /\ pc' = [ pc EXCEPT ![id] = "done" ]
    /\ UNCHANGED << session, sessionDir, summary, events, browser >>
    /\ UNCHANGED videoFrame

\* browser.close rejects: the finally block is abandoned
videoCloseFail(id) ==
    /\ pc[id] = "vClosing"
    /\ pc' = [ pc EXCEPT ![id] = "crashed" ]
    /\ UNCHANGED << activeSessions, session, sessionDir, summary, events,
                    browser >>
    /\ UNCHANGED videoFrame

NextVideo ==
    \/ \E id \in PairIds, url \in VideoUrls : startVideo(id, url)
    \/ \E id \in PairIds : videoLaunchOk(id)
    \/ \E id \in PairIds : videoNewPageOk(id)
    \/ \E id \in PairIds : videoSetViewportOk(id)
    \/ \E id \in PairIds : videoGotoOk(id)
    \/ \E id \in PairIds : videoWaitDone(id)
    \/ \E id \in PairIds : videoTitleOk(id)
    \/ \E id \in PairIds : recordOk(id)
    \/ \E id \in PairIds : videoFail(id)
    \/ \E id \in PairIds : videoCloseOk(id)
    \/ \E id \in PairIds : videoCloseFail(id)

SpecVideo == Init /\ [][NextVideo]_vars

(***************************************************************************)
(* Properties                                                              *)
(***************************************************************************)
Ended == { "done", "crashed" }

Started(id) == pc[id] # "idle"

NoDuplicates(s) == \A i, j \in 1..Len(s) : s[i] = s[j] => i = j

EventsNamed(id, name) ==
    { i \in 1..Len(events[id]) : events[id][i].name = name }

\* C1: in every reachable state the number of visited urls of a session is
\* at most its budget maxPages; hence no page is dequeued once visited.size
\* has reached the budget
C1_VisitedWithinBudget ==
    \A id \in SessionIds :
        Cardinality(visited[id]) <= session[id].options.maxPages

\* the loop was left because the budget was used up, with urls still queued
C1_Witness ==
    \E id \in SessionIds :
        /\ pc[id] = "closing"
        /\ ~session[id].cancelled
        /\ Cardinality(visited[id]) = session[id].options.maxPages
        /\ Len(queue[id]) > 0

\* C2: over the lifetime of a session no url is handed to the queue more
\* than once, and the queue never holds a url at two positions
C2_EnqueuedAtMostOnce ==
    \A id \in SessionIds :
        /\ NoDuplicates(enqueued[id])
        /\ NoDuplicates(queue[id])

\* a page has linked to a url that was queued before, and to a new one
C2_Witness ==
    \E id \in SessionIds :
        /\ pc[id] = "scroll"
        /\ Len(enqueued[id]) >= 3
        /\ \E i \in 1..Len(links[id]) :
              \E j \in 1..(Len(enqueued[id]) - 1) :
                  /\ links[id][i] = enqueued[id][j]
                  /\ enqueued[id][j] # currentUrl[id]

\* C3: queue and visited are disjoint, so the url a dequeue returns is never
\* already visited and the `continue` branch of the loop is never taken
C3_QueueVisitedDisjoint ==
    \A id \in SessionIds :
        \A i \in 1..Len(queue[id]) : queue[id][i] \notin visited[id]

\* a page that links back to a visited url has been read while urls wait
C3_Witness ==
    \E id \in SessionIds :
        /\ pc[id] = "scroll"
        /\ Len(queue[id]) > 0
        /\ \E i \in 1..Len(links[id]) :
              links[id][i] \in visited[id] \ { currentUrl[id] }

\* C4: the result log of a session never holds two records, success or
\* failure, with the same url
C4_OneResultPerUrl ==
    \A id \in SessionIds :
        \A i, j \in 1..Len(results[id]) :
            results[id][i].url = results[id][j].url => i = j

\* two different pages have results, the first having found two links
C4_Witness ==
    \E id \in SessionIds :
        /\ Len(results[id]) >= 2
        /\ ~results[id][1].failed
        /\ results[id][1].linksFound >= 2
        /\ results[id][2].url # results[id][1].url

\* C5: a session whose crawl task has ended, in whatever way, has emitted
\* exactly one 'complete' event, and no session ever emits two
C5_ExactlyOneTerminal ==
    \A id \in SessionIds :
        /\ Cardinality(EventsNamed(id, "complete")) <= 1
        /\ pc[id] \in Ended => Cardinality(EventsNamed(id, "complete")) = 1

\* C6: a session is in activeSessions while its crawl task runs, and is out
\* of it once the task has ended
C6_RegistryTracksTask ==
    \A id \in SessionIds :
        /\ pc[id] \in Ended => id \notin activeSessions
        /\ (Started(id) /\ pc[id] \notin Ended) => id \in activeSessions
        /\ ~Started(id) => id \notin activeSessions

\* C7: the 'complete' event of a session is the last event of that session:
\* nothing from the crawl loop and no cancel notice comes after it
C7_NothingAfterComplete ==
    \A id \in SessionIds :
        \A i \in EventsNamed(id, "complete") : i = Len(events[id])

\* a cancelled session has completed and a later cancel request named it
C7_Witness ==
    \E id \in SessionIds :
        /\ pc[id] = "done"
        /\ session[id].cancelled
        /\ refused.op = "cancel-crawl"
        /\ refused.sessionId = id
        /\ refused.known
        /\ events[id][Len(events[id])].name = "complete"

CancelIndexes(id) ==
    { i \in 1..Len(events[id]) : events[id][i] = CancelNotice }

\* C8: once a cancel request has reached a live session, the flag is set, the
\* crawl task is past its loop at the next evaluation of the condition (no
\* progress event follows the request), and the ended task has emitted
\* exactly one 'complete' event
C8_CancelEndsSession ==
    \A id \in SessionIds :
        \A c \in CancelIndexes(id) :
            /\ session[id].cancelled
            /\ \A i \in EventsNamed(id, "progress") : i < c
            /\ pc[id] \in Ended =>
                   Cardinality(EventsNamed(id, "complete")) = 1

\* the variables of the program, without the record of refused requests
programVars ==
    << activeSessions, session, sessionDir, pc, visited, visitedPatterns,
       skippedUrls, queue, results, currentUrl, pageNumber, title, links,
       browser, summary, events >>

HasCompleted(sessionId) ==
    /\ sessionId \in SessionIds
    /\ EventsNamed(sessionId, "complete") # {}

\* C9: a cancel-crawl request naming an unknown session, or a session that
\* has emitted its 'complete' event, changes nothing of any session and
\* emits nothing
C9_StaleCancelIsNoOp ==
    [][ \A sessionId \in RequestIds :
            ( /\ sessionId \notin SessionIds \/ HasCompleted(sessionId)
              /\ cancelCrawl(sessionId) )
            => UNCHANGED programVars ]_vars

\* a session that was never cancelled has completed with results, and a
\* cancel request naming it was then ignored
C9_Witness ==
    /\ refused.op = "cancel-crawl"
    /\ refused.known
    /\ pc[refused.sessionId] = "done"
    /\ ~session[refused.sessionId].cancelled
    /\ Len(results[refused.sessionId]) > 0

IsOutcome(e) ==
    \/ e.name = "screenshot"
    \/ e.name = "status" /\ e.type = "error"
          /\ e.message = "Failed to capture"

OutcomeUrl(e) == IF e.name = "screenshot" THEN e.result.url ELSE e.url

\* the first index after i that holds a 'progress' or a 'complete' event
NextMark(evs, i) ==
    LET later == { j \in (i + 1)..Len(evs) :
                      evs[j].name \in { "progress", "complete" } }
    IN  IF later = {} THEN Len(evs) + 1
        ELSE CHOOSE j \in later : \A k \in later : j <= k

\* session-started first and once; every progress event followed, before
\* the next progress and the complete event, by one outcome for its url (or
\* by none yet, for the page being processed); no outcome elsewhere
TraceOrdered(id) ==
    LET evs == events[id]
        progress == EventsNamed(id, "progress")
        outcomes == { i \in 1..Len(evs) : IsOutcome(evs[i]) }
        Of(i) == { o \in outcomes : i < o /\ o < NextMark(evs, i) }
    IN  /\ Started(id) => EventsNamed(id, "session-started") = { 1 }
        /\ \A i \in progress :
              /\ Cardinality(Of(i)) <= 1
              /\ \A o \in Of(i) : OutcomeUrl(evs[o]) = evs[i].url
              /\ Of(i) = {} => /\ NextMark(evs, i) = Len(evs) + 1
                               /\ pc[id] \notin Ended \cup { "closing" }
        /\ \A o \in outcomes : \E i \in progress : o \in Of(i)
        /\ \A i \in EventsNamed(id, "complete") : i = Len(evs)

\* C10: the event trace of a session is ordered as above, and the trace of
\* an ended session closes with the 'complete' event
C10_TraceShape ==
    \A id \in SessionIds :
        /\ TraceOrdered(id)
        /\ pc[id] \in Ended =>
               events[id][Len(events[id])].name = "complete"

CrawlError == Status("error", "Crawl error", "")

Last(s) == s[Len(s)]

\* C11: a step that appends a failure record gives it the sequence number
\* visited.size and the url of the page, raises no session error, and goes
\* on with the head of the queue unless the loop condition is false
C11_PageFailureGoesOn ==
    [][ \A id \in SessionIds :
          ( /\ Len(results'[id]) = Len(results[id]) + 1
            /\ Last(results'[id]).failed )
          => /\ Last(results'[id]).id = Cardinality(visited[id])
             /\ Last(results'[id]).url = currentUrl[id]
             /\ ~Contains(events'[id], CrawlError)
             /\ IF /\ Len(queue[id]) > 0
                   /\ Cardinality(visited[id]) < session[id].options.maxPages
                   /\ ~session[id].cancelled
                THEN /\ pc'[id] = "goto"
                     /\ currentUrl'[id] = Head(queue[id])
                     /\ queue'[id] = Tail(queue[id])
                ELSE pc'[id] = "closing" ]_vars

\* a page failed and the next page of the queue was captured
C11_Witness ==
    \E id \in SessionIds :
        /\ Len(results[id]) >= 2
        /\ results[id][1].failed
        /\ ~results[id][2].failed

\* C12: the url of a failure record stays in visited, is not in the queue,
\* and has been navigated to exactly once
C12_FailedPageNotRetried ==
    \A id \in SessionIds :
        \A i \in 1..Len(results[id]) :
            results[id][i].failed =>
                /\ results[id][i].url \in visited[id]
                /\ ~Contains(queue[id], results[id][i].url)
                /\ Cardinality({ j \in EventsNamed(id, "progress") :
                       events[id][j].url = results[id][i].url }) = 1

\* a later page links to a page that failed
C12_Witness ==
    \E id \in SessionIds :
        /\ pc[id] = "scroll"
        /\ \E i \in 1..Len(results[id]) :
              /\ results[id][i].failed
              /\ Contains(links[id], results[id][i].url)

\* C13: a session whose setup failed has processed no page and emitted no
\* progress event, and once its task has ended it has emitted one 'complete'
\* event with an empty result log and is out of activeSessions
C13_SetupFailureCompletes ==
    \A id \in SessionIds :
        Contains(events[id], CrawlError) =>
            /\ EventsNamed(id, "progress") = {}
            /\ results[id] = << >>
            /\ pc[id] \in Ended =>
                  /\ Cardinality(EventsNamed(id, "complete")) = 1
                  /\ Last(events[id]) = Complete(id, << >>)
                  /\ id \notin activeSessions

\* the urls of the progress events of a session, in order
IsProgress(e) == e.name = "progress"

VisitSeq(id) ==
    LET ps == SelectSeq(events[id], IsProgress)
    IN  [ k \in 1..Len(ps) |-> ps[k].url ]

\* no pattern dedup, no cancellation, no page failure, no setup failure
Undisturbed(id) ==
    /\ Started(id)
    /\ ~session[id].options.smartDedup
    /\ ~session[id].cancelled
    /\ \A i \in 1..Len(results[id]) : ~results[id][i].failed
    /\ ~Contains(events[id], CrawlError)

LoopLeft(id) == pc[id] \in { "closing", "done", "crashed" } /\ browser[id]

\* the links of a page that were never discovered before, in link order
RECURSIVE Undiscovered(_, _)
Undiscovered(ls, known) ==
    IF ls = << >> THEN << >>
    ELSE IF Contains(known, Head(ls))
         THEN Undiscovered(Tail(ls), known)
         ELSE << Head(ls) >> \o Undiscovered(Tail(ls), Append(known, Head(ls)))

\* pages are visited in the order of their discovery, as many as the budget
\* allows
BreadthFirst(id) ==
    Undisturbed(id) =>
        /\ Len(VisitSeq(id)) <= Len(enqueued[id])
        /\ VisitSeq(id) = SubSeq(enqueued[id], 1, Len(VisitSeq(id)))
        /\ LoopLeft(id) =>
              Len(VisitSeq(id)) =
                  Min(session[id].options.maxPages, Len(enqueued[id]))

\* the discovery order starts with the start url and grows, page by page in
\* visiting order, by the links of the page that were not discovered before
DiscoveryStep(id) ==
    (Undisturbed(id) /\ pc[id] = "extract" /\ pc'[id] = "scroll") =>
        /\ Last(VisitSeq(id)) = currentUrl[id]
        /\ enqueued'[id] =
              enqueued[id] \o Undiscovered(links'[id], enqueued[id])

\* C14: without pattern dedup, failure and cancellation, the visiting order
\* is the first maxPages urls of the breadth-first discovery order from the
\* start url, whatever links the pages carry
C14_BreadthFirstOrder ==
    /\ [](\A id \in SessionIds : BreadthFirst(id))
    /\ [][ \A id \in SessionIds : DiscoveryStep(id) ]_vars

\* root -> {A, B}, A -> {B, root}, budget 3: visited in the order root, A, B
C14_Witness ==
    \E id \in SessionIds :
        /\ Undisturbed(id)
        /\ LoopLeft(id)
        /\ session[id].options.maxPages = 3
        /\ VisitSeq(id) = << "http://x.io", "http://x.io/product/1",
                             "http://x.io/about" >>
        /\ Cardinality(visited[id]) = 3
        /\ results[id][1].linksFound = 2
        /\ results[id][2].linksFound = 2
        /\ SubSeq(enqueued[id], 1, 3) = VisitSeq(id)

\* what extractLinks returns for the listing page
ListingLinks == extractLinks(Listing, "http://x.io/")

ProductLinks == { ListingLinks[1], ListingLinks[2] }

AboutLink == ListingLinks[3]

\* the links of the listing page are evaluated with pattern dedup enabled,
\* after a product page has been processed
ListingEvaluated(id) ==
    /\ session[id].options.smartDedup
    /\ pc[id] = "extract"
    /\ pc'[id] = "scroll"
    /\ links'[id] = ListingLinks
    /\ visited[id] \cap ProductLinks # {}

SkipsOf(skips, url) == { i \in 1..Len(skips) : skips[i].url = url }

\* the step added one Skip record of url and did not put url into the queue
Rejected(id, url) ==
    /\ ~Contains(queue'[id], url)
    /\ Cardinality(SkipsOf(skippedUrls'[id], url)) =
          Cardinality(SkipsOf(skippedUrls[id], url)) + 1
    /\ Last(skippedUrls'[id]).reason = "duplicate_pattern"

ProductPatternSeen(id) ==
    getUrlPattern(ListingLinks[1]) \in visitedPatterns'[id]

\* a url with a Skip record is never visited and never queued
SkippedNeverVisited(id) ==
    \A i \in 1..Len(skippedUrls[id]) :
        /\ skippedUrls[id][i].url \notin visited[id]
        /\ ~Contains(queue[id], skippedUrls[id][i].url)

LinksEvaluated(id) ==
    /\ session[id].options.smartDedup
    /\ pc[id] = "extract"
    /\ pc'[id] = "scroll"

\* the urls the step handed to the queue
Pushed(id) ==
    { enqueued'[id][i] : i \in (Len(enqueued[id]) + 1)..Len(enqueued'[id]) }

NewSkips(id, url) ==
    Cardinality(SkipsOf(skippedUrls'[id], url))
        - Cardinality(SkipsOf(skippedUrls[id], url))

\* C16: when links are evaluated with pattern dedup enabled, every link whose
\* pattern is in visitedPatterns is not enqueued and gets exactly one Skip
\* record, also when it is already queued or visited; every other link is
\* enqueued unless it is queued or visited, and gets no Skip record
C16_EveryPatternMatchSkipped ==
    [][ \A id \in SessionIds :
          LinksEvaluated(id) =>
              \A i \in 1..Len(links'[id]) :
                  LET link == links'[id][i]
                  IN  IF getUrlPattern(link) \in visitedPatterns'[id]
                      THEN /\ link \notin Pushed(id)
                           /\ NewSkips(id, link) = 1
                      ELSE /\ NewSkips(id, link) = 0
                           /\ link \in Pushed(id) <=>
                                 ( /\ link \notin visited[id]
                                   /\ ~Contains(queue[id], link) ) ]_vars

\* C17: when the links of page P are evaluated with pattern dedup enabled,
\* the pattern of P is in visitedPatterns; P never has a Skip record; and a
\* link of P with the pattern of P that is neither queued nor visited is
\* rejected
C17_OwnPatternRecordedFirst ==
    /\ [](\A id \in SessionIds :
             SkipsOf(skippedUrls[id], currentUrl[id]) = {})
    /\ [][ \A id \in SessionIds :
             LinksEvaluated(id) =>
                 /\ getUrlPattern(currentUrl[id]) \in visitedPatterns'[id]
                 /\ NewSkips(id, currentUrl[id]) = 0
                 /\ \A i \in 1..Len(links'[id]) :
                       LET link == links'[id][i]
                       IN  ( /\ getUrlPattern(link) =
                                   getUrlPattern(currentUrl[id])
                             /\ link \notin visited[id]
                             /\ ~Contains(queue[id], link) )
                           => /\ link \notin Pushed(id)
                              /\ NewSkips(id, link) = 1 ]_vars

\* a page links to itself and to a sibling of its own pattern: the sibling
\* has a Skip record, the page has none
C17_Witness ==
    \E id \in SessionIds :
        /\ session[id].options.smartDedup
        /\ pc[id] = "scroll"
        /\ getUrlPattern(currentUrl[id]) \in visitedPatterns[id]
        /\ Contains(links[id], currentUrl[id])
        /\ SkipsOf(skippedUrls[id], currentUrl[id]) = {}
        /\ \E i \in 1..Len(links[id]) :
              /\ links[id][i] # currentUrl[id]
              /\ getUrlPattern(links[id][i]) = getUrlPattern(currentUrl[id])
              /\ SkipsOf(skippedUrls[id], links[id][i]) # {}

\* both urls parse and agree on scheme, host and port
SameOrigin(a, b) ==
    a.ok /\ b.ok /\ a.protocol = b.protocol /\ a.origin = b.origin

\* two parsed urls that differ by one trailing slash of the path only
OnlyTrailingSlash(a, b) ==
    /\ SameOrigin(a, b)
    /\ a.search = b.search
    /\ a.hash = b.hash
    /\ a.pathname = b.pathname \o "/" \/ b.pathname = a.pathname \o "/"

\* two parsed urls that differ by their fragment only
OnlyFragment(a, b) ==
    /\ SameOrigin(a, b)
    /\ a.pathname = b.pathname
    /\ a.search = b.search
    /\ a.hash # b.hash

DifferInQuery(a, b) == a.ok /\ b.ok /\ a.search # b.search

\* out is a url of the scheme, host and port of the parsed url a
KeepsOrigin(a, out) ==
    a.ok => SameOrigin(a, ParseUrl(out))

Canonicalized == probe.stage = "canonicalized"

\* C18: urls that differ by one trailing slash of the path only, or by the
\* fragment only, are normalized to the same string; urls with different
\* query strings to different strings; scheme, host and port are kept
C18_CanonicalizeLaws ==
    Canonicalized =>
        LET a == ParseUrl(probe.u)
            b == ParseUrl(probe.v)
        IN  /\ OnlyTrailingSlash(a, b) => probe.outU = probe.outV
            /\ OnlyFragment(a, b) => probe.outU = probe.outV
            /\ DifferInQuery(a, b) => probe.outU # probe.outV
            /\ KeepsOrigin(a, probe.outU)

Classified == probe.stage = "classified"

\* the collection keywords of the probed urls, one of them in capitals
ProbeKeywords == collectionPaths \cup { "Product" }

\* both urls of a probed pair origin/k/x, origin/k/y have the pattern
\* origin/k/{item}
KeywordPairsCollapse ==
    \A o \in ProbeOrigins, k \in ProbeKeywords, xy \in ItemPairs :
        LET dir == o \o "/" \o k \o "/"
        IN  (probe.u = dir \o xy[1] /\ probe.v = dir \o xy[2]) =>
                /\ probe.outU = dir \o "{item}"
                /\ probe.outV = dir \o "{item}"

\* the path of the parsed url a is one alphabetic segment that is no keyword
SingleWordPath(a) ==
    LET segs == FilterNonEmpty(Split(a.pathname))
    IN  /\ a.ok
        /\ Len(segs) = 1
        /\ AllIn(segs[1], Alpha)
        /\ toLowerCase(segs[1]) \notin collectionPaths

TheWord(a) == FilterNonEmpty(Split(a.pathname))[1]

\* url is written as origin/w, w one alphabetic segment that is no keyword
WordUrl(url) ==
    LET a == ParseUrl(url)
    IN  SingleWordPath(a) /\ url = a.origin \o "/" \o TheWord(a)

WordPattern(url, out) ==
    LET a == ParseUrl(url)
        w == TheWord(a)
    IN  SingleWordPath(a) =>
            /\ Len(w) <= LongSegment => out = a.origin \o "/" \o w
            /\ Len(w) > LongSegment => out = a.origin \o "/{dynamic}"
            /\ out = url <=> (Len(w) <= LongSegment /\ url = a.origin \o "/" \o w)

RECURSIVE Flatten(_)
Flatten(docs) ==
    IF docs = {} THEN {}
    ELSE LET d == CHOOSE x \in docs : TRUE
         IN  { d[i] : i \in 1..Len(d) } \cup Flatten(docs \ { d })

\* the start urls, anchors and probed urls that new URL rejects
Unparsable ==
    { u \in StartUrls \cup Flatten(Documents) \cup CanonUrls : ~ParseUrl(u).ok }

\* normalizeUrl and getUrlPattern return what they cannot parse as it is
FailOpen ==
    \A u \in Unparsable : normalizeUrl(u) = u /\ getUrlPattern(u) = u

UnparsableStart(id) == Started(id) /\ ~ParseUrl(session[id].url).ok

Navigated == { "wait", "title", "extract", "scroll", "shot" }

\* the start url is the one url of the frontier, as the string it was given
TrackedAsLiteral(id) ==
    LET u == session[id].url
    IN  /\ visited[id] \subseteq { u }
        /\ \A i \in 1..Len(queue[id]) : queue[id][i] = u
        /\ pc[id] # "goto" \/ (currentUrl[id] = u /\ u \in visited[id])
        /\ \A i \in 1..Len(results[id]) :
              results[id][i].url = u /\ u \in visited[id]

\* C20 as stated: normalizeUrl and getUrlPattern return an unparsable input
\* as it is; an unparsable start url is in visited as that string once it
\* was processed, and in visitedPatterns when patterns are recorded, and the
\* session has no crawl error
C20_UnparsableTracked ==
    /\ FailOpen
    /\ \A id \in SessionIds :
          (UnparsableStart(id) /\ results[id] # << >>) =>
              /\ session[id].url \in visited[id]
              /\ session[id].options.smartDedup =>
                     getUrlPattern(session[id].url) \in visitedPatterns[id]
              /\ ~Contains(events[id], CrawlError)

\* C20: normalizeUrl and getUrlPattern return an unparsable input as it is;
\* an unparsable start url is the only url of the frontier, as the string it
\* was given, its navigation never succeeds, it gets at most one record, a
\* failure, and no pattern, and a crawl error of its session precedes the
\* first page; no unparsable link is ever in the queue or in visited
C20_UnparsableFailsOpen ==
    /\ FailOpen
    /\ \A id \in SessionIds :
          /\ UnparsableStart(id) =>
                /\ TrackedAsLiteral(id)
                /\ pc[id] \notin Navigated
                /\ Len(results[id]) <= 1
                /\ \A i \in 1..Len(results[id]) : results[id][i].failed
                /\ visitedPatterns[id] = {}
                /\ skippedUrls[id] = << >>
                /\ Contains(events[id], CrawlError) => visited[id] = {}
          /\ Started(id) =>
                \A x \in visited[id] \cup { queue[id][i] : i \in 1..Len(queue[id]) } :
                    ParseUrl(x).ok \/ x = session[id].url

\* a session started on an unparsable url with patterns recorded has ended
\* with one failure record and a 'complete' event
C20_Witness ==
    \E id \in SessionIds :
        /\ UnparsableStart(id)
        /\ session[id].options.smartDedup
        /\ pc[id] = "done"
        /\ Len(results[id]) = 1
        /\ results[id][1].failed
        /\ results[id][1].url = session[id].url
        /\ visited[id] = { session[id].url }
        /\ EventsNamed(id, "complete") # {}

\* the urls a session has dequeued or holds in its queue
Frontier(id) == visited[id] \cup { queue[id][i] : i \in 1..Len(queue[id]) }

ParsableStart(id) == Started(id) /\ ParseUrl(session[id].url).ok

\* C21: every url in the queue or in visited of a session has the origin
\* (scheme, host and port) of the start url of the session
C21_FrontierSameOrigin ==
    \A id \in SessionIds :
        ParsableStart(id) =>
            \A x \in Frontier(id) :
                ParseUrl(x).origin = ParseUrl(session[id].url).origin

\* the locals of the crawlWebsite call of a session
TaskState(id) ==
    << pc[id], visited[id], visitedPatterns[id], skippedUrls[id], queue[id],
       results[id], currentUrl[id], pageNumber[id], title[id], links[id],
       browser[id], summary[id] >>

\* everything that belongs to one session: its object, its registration,
\* its task and what was emitted for it
SessionState(id) ==
    << session[id], id \in activeSessions, TaskState(id), events[id],
       sessionDir[id], enqueued[id] >>

\* a step of the server that serves the session id
StepOf(id) ==
    \/ \E url \in PairUrls, options \in PairOptions :
           startCrawl(id, url, options)
    \/ cancelCrawl(id)
    \/ launchOk(id) \/ launchFail(id) \/ newPageOk(id) \/ setupFail(id)
    \/ setViewportOk(id) \/ gotoOk(id) \/ waitDone(id) \/ titleOk(id)
    \/ extractOk(id) \/ scrollOk(id) \/ settleDone(id) \/ shotOk(id)
    \/ pageFail(id) \/ closeOk(id) \/ closeFail(id)

\* C22: of two sessions, a step changes the state of one at most, and
\* changes it as a step serving that session alone does; a step that sets
\* the cancelled flag of one session leaves the flag, the task and the events
\* of the other as they are; a session enters and leaves activeSessions only
\* by a step of its own
C22_SessionsIndependent ==
    [][ \A a \in PairIds : \A b \in PairIds \ { a } :
          /\ SessionState(a)' # SessionState(a) =>
                /\ SessionState(b)' = SessionState(b)
                /\ StepOf(a)
          /\ session'[a].cancelled # session[a].cancelled =>
                /\ session'[b].cancelled = session[b].cancelled
                /\ TaskState(b)' = TaskState(b)
                /\ events'[b] = events[b]
          /\ (a \in activeSessions') # (a \in activeSessions) =>
                (pc'[a] # pc[a] /\ pc'[b] = pc[b]) ]_vars

\* the first session was cancelled before its first page and has ended
\* without a record while the second, not cancelled, has captured its page
C22_Witness ==
    /\ session["s1"].cancelled
    /\ pc["s1"] = "done"
    /\ results["s1"] = << >>
    /\ ~session["s2"].cancelled
    /\ "s2" \in activeSessions
    /\ Len(results["s2"]) = 1
    /\ ~results["s2"][1].failed
    /\ queue["s2"] # << >>

\* the while condition of crawlWebsite in the current state
LoopCondition(id) ==
    /\ Len(queue[id]) > 0
    /\ Cardinality(visited[id]) < session[id].options.maxPages
    /\ ~session[id].cancelled

\* the task of id is between the dequeue of a page and its record
MidPage == { "goto", "wait", "title", "extract", "scroll", "settle", "shot" }

\* the step ends a page or the setup: the loop condition is evaluated next
AtLoopTop(id) ==
    \/ pc[id] = "setViewport" /\ pc'[id] # "setViewport"
          /\ ~Contains(events'[id], CrawlError)
    \/ Len(results'[id]) = Len(results[id]) + 1

\* C23: a url leaves the queue only by a step that evaluates the loop
\* condition in a state where the queue is not empty, visited.size is below
\* maxPages and the session is not cancelled; such a step leaves the loop
\* when the condition is false; and a task in the middle of a page neither
\* dequeues nor leaves the loop, cancelled or not, until the page has its
\* record
C23_ConditionBeforeDequeue ==
    [][ \A id \in SessionIds :
          /\ ( Started(id) /\ Len(queue'[id]) < Len(queue[id]) ) =>
                /\ AtLoopTop(id)
                /\ LoopCondition(id)
                /\ queue'[id] = Tail(queue[id])
                /\ currentUrl'[id] = Head(queue[id])
          /\ ( AtLoopTop(id) /\ ~LoopCondition(id) ) =>
                /\ pc'[id] = "closing"
                /\ queue'[id] = queue[id]
                /\ visited'[id] = visited[id]
          /\ ( pc[id] \in MidPage /\ ~AtLoopTop(id) ) =>
                /\ pc'[id] \in MidPage
                /\ visited'[id] = visited[id]
                /\ currentUrl'[id] = currentUrl[id]
                /\ \A i \in 1..Len(queue[id]) : queue'[id][i] = queue[id][i] ]_vars

\* a cancelled session has left the loop after its page with urls in the
\* queue and budget to spare
C23_Witness ==
    \E id \in SessionIds :
        /\ pc[id] = "closing"
        /\ session[id].cancelled
        /\ Len(results[id]) = 1
        /\ Len(queue[id]) > 0
        /\ Cardinality(visited[id]) < session[id].options.maxPages

\* the awaits that are left before the current page has its record
PcRank(p) ==
    CASE p = "launch" -> 12
      [] p = "newPage" -> 11
      [] p = "setViewport" -> 10
      [] p = "goto" -> 8
      [] p = "wait" -> 7
      [] p = "title" -> 6
      [] p = "extract" -> 5
      [] p = "scroll" -> 4
      [] p = "settle" -> 3
      [] p = "shot" -> 2
      [] p = "closing" -> 1
      [] OTHER -> 0

\* an upper bound of the resumptions the task of id has left
Measure(id) ==
    (session[id].options.maxPages - Cardinality(visited[id])) * 9
        + PcRank(pc[id])

TaskMoved(id) ==
    Started(id) /\ (pc'[id] # pc[id] \/ results'[id] # results[id])

\* C24: every resumption of the task of a started session lowers a measure
\* that is bounded by the budget, the loop body is entered maxPages times at
\* most, and a task that has ended has emitted the 'complete' event
C24_SessionReachesTerminal ==
    /\ [](\A id \in SessionIds :
            /\ Started(id) =>
                  Cardinality(EventsNamed(id, "progress"))
                      <= session[id].options.maxPages
            /\ pc[id] \in Ended => EventsNamed(id, "complete") # {})
    /\ [][ \A id \in SessionIds :
             TaskMoved(id) =>
                 /\ Measure(id)' < Measure(id)
                 /\ Measure(id)' >= 0 ]_vars

\* C25: the cancelled flag of a session is false when the session starts,
\* stays true once it is true, and changes only by a cancel-crawl request
\* that names the session and finds it in activeSessions
C25_CancelledMonotonic ==
    [][ \A id \in SessionIds :
          /\ (~Started(id) /\ Started(id)') => ~session'[id].cancelled
          /\ Started(id) =>
                /\ session[id].cancelled => session'[id].cancelled
                /\ session'[id].cancelled # session[id].cancelled =>
                      /\ id \in activeSessions
                      /\ cancelCrawl(id) ]_vars

\* a session that was cancelled in the middle of a page has ended, still
\* cancelled, with the record of that page
C25_Witness ==
    \E id \in SessionIds :
        /\ session[id].cancelled
        /\ pc[id] = "done"
        /\ Len(results[id]) = 1
        /\ \E c \in CancelIndexes(id) :
              \E i \in EventsNamed(id, "progress") : i < c

\* the indexes of the events that report the record of a page
OutcomeIndexes(id) ==
    { i \in 1..Len(events[id]) : IsOutcome(events[id][i]) }

\* the task of id has left the loop
OutOfLoop(id) == pc[id] \in { "closing", "done" }

\* C26: a cancelled session in the middle of a page goes on with that page:
\* its links are admitted as those of any page and its steps end with the
\* record of the page; after a cancel request one record at most is
\* reported; and a task that has left the loop has a record for every page
\* it dequeued
C26_CancelIsPolled ==
    /\ [](\A id \in SessionIds :
            /\ \A c \in CancelIndexes(id) :
                  Cardinality({ i \in OutcomeIndexes(id) : i > c }) <= 1
            /\ OutOfLoop(id) => Len(results[id]) = Cardinality(visited[id]))
    /\ [][ \A id \in SessionIds :
             ( session[id].cancelled /\ pc[id] \in MidPage /\ TaskMoved(id) ) =>
                 /\ \/ pc'[id] \in MidPage /\ results'[id] = results[id]
                    \/ /\ Len(results'[id]) = Len(results[id]) + 1
                       /\ Last(results'[id]).url = currentUrl[id]
                       /\ pc'[id] = "closing"
                 /\ ( pc[id] = "extract" /\ pc'[id] = "scroll" ) =>
                       queue'[id] =
                           Admit(links'[id], queue[id], visited[id],
                                 visitedPatterns'[id],
                                 session[id].options.smartDedup).queue ]_vars

\* a session was cancelled after the progress event of its page and before
\* the links of the page were read; the links are in the queue, the page has
\* its record and the session has ended
C26_Witness ==
    \E id \in SessionIds :
        /\ pc[id] = "done"
        /\ Len(results[id]) = 1
        /\ ~results[id][1].failed
        /\ Len(queue[id]) = 2
        /\ session[id].options.maxPages > 1
        /\ \E c \in CancelIndexes(id) :
              /\ \E i \in EventsNamed(id, "progress") : i < c
              /\ \A i \in 1..Len(events[id]) :
                    ( events[id][i].name = "status"
                      /\ events[id][i].message = "Taking screenshot of" ) => c < i

\* C27: the i-th record has the sequence number i and the url of the i-th
\* dequeued page; when the loop condition is evaluated and when the loop has
\* been left there are visited.size records; and a 'complete' event carries
\* the result log and totalPages = visited.size, the number of dequeued pages
C27_LogMatchesVisits ==
    /\ [](\A id \in SessionIds :
            /\ Len(VisitSeq(id)) = Cardinality(visited[id])
            /\ Len(results[id]) <= Len(VisitSeq(id))
            /\ \A i \in 1..Len(results[id]) :
                  /\ results[id][i].id = i
                  /\ results[id][i].url = VisitSeq(id)[i]
            /\ OutOfLoop(id) => Len(results[id]) = Cardinality(visited[id])
            /\ \A k \in EventsNamed(id, "complete") :
                  /\ events[id][k].totalPages = Cardinality(visited[id])
                  /\ events[id][k].results = results[id])
    /\ [][ \A id \in SessionIds :
             AtLoopTop(id) => Len(results'[id]) = Cardinality(visited[id]) ]_vars

\* a session has ended after three pages, one of them failed, and its
\* 'complete' event reports three pages
C27_Witness ==
    \E id \in SessionIds :
        /\ pc[id] = "done"
        /\ Len(results[id]) = 3
        /\ results[id][2].failed
        /\ ~results[id][3].failed
        /\ \E k \in EventsNamed(id, "complete") : events[id][k].totalPages = 3

ProgressEvents(id) == SelectSeq(events[id], IsProgress)

\* C28: the progress event a step emits has current = visited.size and
\* total = min(queue.length + visited.size, maxPages) of the state the step
\* leads to, in which the url of the event is visited, is out of the queue
\* and has had none of its links read; the k-th progress event of a session
\* has current = k and current <= total <= maxPages
C28_ProgressCounts ==
    /\ [](\A id \in SessionIds :
            \A k \in 1..Len(ProgressEvents(id)) :
                /\ ProgressEvents(id)[k].current = k
                /\ ProgressEvents(id)[k].total >= k
                /\ ProgressEvents(id)[k].total <= session[id].options.maxPages)
    /\ [][ \A id \in SessionIds :
             Len(ProgressEvents(id)') = Len(ProgressEvents(id)) + 1 =>
                 LET e == Last(ProgressEvents(id)')
                 IN  /\ e.current = Cardinality(visited'[id])
                     /\ e.total = Min(Len(queue'[id]) + Cardinality(visited'[id]),
                                      session[id].options.maxPages)
                     /\ e.url = currentUrl'[id]
                     /\ e.url \in visited'[id] \ visited[id]
                     /\ e.url = Head(queue[id])
                     /\ queue'[id] = Tail(queue[id])
                     /\ links'[id] = << >>
                     /\ pc'[id] = "goto" ]_vars

\* a session with a budget of three pages: its first progress event reports
\* a total of one, the queue being empty after the dequeue, and its second
\* a total of three, with two urls queued and two visited
C28_Witness ==
    \E id \in SessionIds :
        /\ session[id].options.maxPages = 3
        /\ pc[id] = "goto"
        /\ Len(ProgressEvents(id)) = 2
        /\ ProgressEvents(id)[1].total = 1
        /\ ProgressEvents(id)[2].current = 2
        /\ ProgressEvents(id)[2].total = 3
        /\ Len(queue[id]) = 2

\* the awaits of takeFullPageScreenshot
Capturing == { "scroll", "settle", "shot" }

\* C29: the links of a page are admitted and its pattern is recorded when
\* its capture has completed: the queue of a started session grows, and
\* visitedPatterns changes, only in the step that ends the capture, so that
\* a step that records a failed capture finds the queue as it was when the
\* page was dequeued
C29_CaptureBeforeAdmission ==
    [][ \A id \in SessionIds :
          Started(id) =>
              /\ ( Len(queue'[id]) > Len(queue[id])
                   \/ visitedPatterns'[id] # visitedPatterns[id] ) =>
                     ( pc[id] = "shot" /\ ~Last(results'[id]).failed )
              /\ ( pc[id] \in Capturing
                   /\ Len(results'[id]) = Len(results[id]) + 1
                   /\ Last(results'[id]).failed ) =>
                     \A i \in 1..Len(links[id]) :
                         ~Contains(queue[id], links[id][i]) ]_vars

\* what the shape rules make of the segments after the item
TailShapes ==
    { << "1234", "{id}" >>, << "red-shoes", "{slug}" >>,
      << "about", "about" >>, << "item9", "{slug-id}" >>,
      << "a1b2c3d4", "{hash}" >> }

\* C30: in origin/k/a/b the keyword k keeps its spelling, a becomes {item}
\* and b gets the pattern of the shape rules; in origin/k/k2/a/b the keyword
\* k2 that follows the keyword k keeps its spelling too, and a becomes {item}
C30_KeywordThenItem ==
    Classified =>
        \A o \in ProbeOrigins, k \in OuterKeywords, k2 \in InnerKeywords,
           a \in { "1234", "about" }, bs \in TailShapes :
            LET b == "/" \o bs[1]
                shape == "/" \o bs[2]
            IN  /\ probe.u = o \o "/" \o k \o "/" \o a \o b =>
                      probe.outU = o \o "/" \o k \o "/{item}" \o shape
                /\ probe.v = o \o "/" \o k \o "/" \o k2 \o "/" \o a \o b =>
                      probe.outV =
                          o \o "/" \o k \o "/" \o k2 \o "/{item}" \o shape

C30_Witness ==
    /\ Classified
    /\ probe.u = "https://x.com/Blog/about/red-shoes"
    /\ probe.outU = "https://x.com/Blog/{item}/{slug}"
    /\ probe.v = "https://x.com/Blog/Tags/about/red-shoes"
    /\ probe.outV = "https://x.com/Blog/Tags/{item}/{slug}"

\* what the claimed order of the rules makes of a segment: the segment, its
\* pattern as the first path segment, its pattern as a later one
ShapeCases ==
    { << "123e4567-e89b-12d3-a456-426614174000", "{uuid}", "{uuid}" >>,
      << "12345678", "{id}", "{id}" >>,
      << "1234", "{id}", "{id}" >>,
      << "red-shoes", "red-shoes", "{slug}" >>,
      << "post-123", "post-123", "{slug}" >>,
      << "item9", "item9", "{slug-id}" >>,
      << "2024-01-15-news", "{date-slug}", "{slug}" >>,
      << "2024-01-15", "{date-slug}", "{slug}" >>,
      << "a%20b", "{dynamic}", "{dynamic}" >>,
      << "caf%C3%A9-menu", "{dynamic}", "{dynamic}" >>,
      << "abcdefghijabcdefghijabcdefghijabcdefghijabcdefghijk",
         "{dynamic}", "{dynamic}" >>,
      << "abcdefghijabcdefghijabcdefghijabcdefghijabcdefgh-jk",
         "{dynamic}", "{slug}" >>,
      << "a1b2c", "a1b2c", "a1b2c" >>,
      << "a1b2c3", "a1b2c3", "{hash}" >>,
      << "a1b2c3d4", "a1b2c3d4", "{hash}" >>,
      << "a1b2c3d4e5f6", "a1b2c3d4e5f6", "{hash}" >>,
      << "a1b2c3d4e5f6g", "a1b2c3d4e5f6g", "a1b2c3d4e5f6g" >>,
      << "abcdef", "abcdef", "abcdef" >>,
      << "about", "about", "about" >> }

\* C31: a segment that is no keyword and not directly after one gets the
\* pattern of the first rule that matches, in the order UUID, digits, slug,
\* word with digits, long or percent-encoded, date, hash, literal: a UUID
\* after the first segment is {uuid} and not {slug}, 8 digits are {id} and
\* not {hash}, and as the first segment nothing is {slug}, {slug-id} or
\* {hash}
C31_ShapePriority ==
    Classified =>
        \A o \in ProbeOrigins, c \in ShapeCases :
            /\ probe.u = o \o "/" \o c[1] =>
                  probe.outU = o \o "/" \o c[2]
            /\ probe.v = o \o "/about/" \o c[1] =>
                  probe.outV = o \o "/about/" \o c[3]

C31_Witness ==
    /\ Classified
    /\ probe.u = "https://x.com/123e4567-e89b-12d3-a456-426614174000"
    /\ probe.v = "https://x.com/about/123e4567-e89b-12d3-a456-426614174000"
    /\ probe.outU = "https://x.com/{uuid}"
    /\ probe.outV = "https://x.com/about/{uuid}"

\* the urls a session can hold: the start urls as canonicalized, and the
\* links of the pages
SiteUrls ==
    { normalizeUrl(u) : u \in StartUrls }
        \cup UNION { { ls[i] : i \in 1..Len(ls) } :
                        ls \in UNION { PageLinks[u] : u \in StartUrls } }

PatternOf == [ u \in SiteUrls |-> getUrlPattern(u) ]

\* C32: with pattern dedup enabled, once the pattern of a processed page is
\* recorded no url of that pattern is taken from the queue, whether or not
\* it was waiting in the queue when the pattern was recorded: no two
\* processed pages share a pattern
C32_OnePagePerPattern ==
    [][ \A id \in SessionIds :
          (Started(id) /\ session[id].options.smartDedup) =>
              \A x \in visited'[id] \ visited[id] :
                  PatternOf[x] \notin visitedPatterns[id] ]_vars

\* C33: normalizeUrl applied to its own result returns that result, also
\* for a path that ends in more than one slash
C33_CanonicalizeIdempotent ==
    Canonicalized =>
        /\ normalizeUrl(probe.outU) = probe.outU
        /\ normalizeUrl(probe.outV) = probe.outV

\* spellings of one listing page: two pages of the query, a trailing slash,
\* doubled slashes, a fragment
ListVariants ==
    { ListUrl, "http://x.io/list?page=2", "http://x.io/list",
      "http://x.io/list/", "http://x.io/list//", "http://x.io//list",
      "http://x.io/list#top", "http://x.io/list/?page=2#top" }

ListPattern == "http://x.io/list"

NextListPage == "http://x.io/list?page=2"

PathSegmentsOf(url) == FilterNonEmpty(Split(ParseUrl(url).pathname))

\* urls of the same origin and the same non-empty path segments have the
\* same pattern, whatever their query, fragment and slashes; the two pages
\* of the listing have different canonical forms
PatternIgnoresQuery ==
    /\ \A u \in ListVariants : getUrlPattern(u) = ListPattern
    /\ normalizeUrl(ListUrl) # normalizeUrl(NextListPage)
    /\ \A u, v \in CanonUrls \cup ListVariants :
          ( /\ ParseUrl(u).ok
            /\ ParseUrl(v).ok
            /\ ParseUrl(u).origin = ParseUrl(v).origin
            /\ PathSegmentsOf(u) = PathSegmentsOf(v) )
          => getUrlPattern(u) = getUrlPattern(v)

\* a session with pattern dedup enabled that started on the first page of
\* the listing
ListSession(id) ==
    /\ Started(id)
    /\ session[id].url = ListUrl
    /\ session[id].options.smartDedup

\* C34: the pattern of a url is made of its origin and its non-empty path
\* segments only; in a session with pattern dedup that started on
\* /list?page=1, whenever a page carrying the link /list?page=2 is
\* evaluated the pattern of the listing is recorded and the link is
\* rejected with a Skip record, and /list?page=2 is never queued or visited
C34_QueryBlindPattern ==
    /\ [](PatternIgnoresQuery)
    /\ [](\A id \in SessionIds :
             ListSession(id) => NextListPage \notin Frontier(id))
    /\ [][ \A id \in SessionIds :
             ( /\ ListSession(id)
               /\ LinksEvaluated(id)
               /\ Contains(links'[id], NextListPage) ) =>
                 /\ ListPattern \in visitedPatterns'[id]
                 /\ Rejected(id, NextListPage)
                 /\ Last(skippedUrls'[id]).pattern = ListPattern ]_vars

\* /list?page=1 was processed, /list?page=2 has a Skip record with the
\* pattern of the listing, /about is queued
C34_Witness ==
    \E id \in SessionIds :
        /\ ListSession(id)
        /\ visited[id] = { ListUrl }
        /\ results[id] # << >>
        /\ \E i \in 1..Len(skippedUrls[id]) :
              /\ skippedUrls[id][i].url = NextListPage
              /\ skippedUrls[id][i].pattern = ListPattern
        /\ Contains(queue[id], "http://x.io/about")

\* C35: every progress event of a session has 1 <= current <= total <=
\* maxPages; from one progress event to the next current grows by exactly
\* one and total does not shrink
C35_ProgressMonotone ==
    \A id \in SessionIds :
        LET p == ProgressEvents(id)
        IN  \A k \in 1..Len(p) :
                /\ 1 <= p[k].current
                /\ p[k].current <= p[k].total
                /\ p[k].total <= session[id].options.maxPages
                /\ k > 1 =>
                      /\ p[k].current = p[k - 1].current + 1
                      /\ p[k].total >= p[k - 1].total

\* three progress events of one session: the total grows from 1 to 3 when
\* the links of the first page are queued, and stays at 3
C35_Witness ==
    \E id \in SessionIds :
        LET p == ProgressEvents(id)
        IN  /\ Len(p) = 3
            /\ p[1].total = 1
            /\ p[2].total = 3
            /\ p[3].total = 3
            /\ p[3].current = 3

\* the awaits of an iteration up to the one of extractLinks
Loading == { "goto", "wait", "title", "extract" }

\* the step appended a failure record for a page whose navigation or link
\* extraction did not succeed
LoadFailed(id) ==
    /\ pc[id] \in Loading
    /\ Len(results'[id]) = Len(results[id]) + 1
    /\ Last(results'[id]).failed

\* the urls, other than url, with a failure record
FailedPages(id) ==
    { results[id][i].url : i \in { k \in 1..Len(results[id]) :
                                      results[id][k].failed } }

\* C36: with pattern dedup enabled a pattern is added only by the step that
\* ends the link extraction of a page, and it is the pattern of that page;
\* a page that fails before adds no pattern, queues no link and records no
\* Skip; a link that is neither visited nor queued and whose pattern is not
\* recorded is queued, also when a failed page has its pattern; there are
\* never more patterns than visited pages, nor, between pages and in the
\* summary, than Result records
C36_PatternOnlyAfterExtraction ==
    /\ [](\A id \in SessionIds :
             /\ Cardinality(visitedPatterns[id]) <= Cardinality(visited[id])
             /\ pc[id] \in { "goto", "closing", "done" } =>
                   Cardinality(visitedPatterns[id]) <= Len(results[id])
             /\ (summary[id].written /\ session[id].options.smartDedup) =>
                   summary[id].patternsFound <= summary[id].pagesProcessed)
    /\ [][ \A id \in SessionIds :
             /\ visitedPatterns'[id] # visitedPatterns[id] =>
                   /\ session[id].options.smartDedup
                   /\ pc[id] = "extract" /\ pc'[id] = "scroll"
                   /\ visitedPatterns'[id] =
                         visitedPatterns[id] \cup { PatternOf[currentUrl[id]] }
             /\ LoadFailed(id) =>
                   /\ visitedPatterns'[id] = visitedPatterns[id]
                   /\ enqueued'[id] = enqueued[id]
                   /\ skippedUrls'[id] = skippedUrls[id]
             /\ LinksEvaluated(id) =>
                   \A i \in 1..Len(links'[id]) :
                       LET link == links'[id][i]
                       IN  ( /\ link \notin visited[id]
                             /\ ~Contains(queue[id], link)
                             /\ PatternOf[link] \notin visitedPatterns'[id] )
                           => link \in Pushed(id) ]_vars

\* /item/1 failed to load and left no pattern; /item/2, found later on
\* /help, has the same pattern and was visited
C36_Witness ==
    \E id \in SessionIds :
        /\ Started(id)
        /\ session[id].url = ShopUrl
        /\ "http://x.io/item/1" \in FailedPages(id)
        /\ PatternOf["http://x.io/item/1"] = PatternOf["http://x.io/item/2"]
        /\ PatternOf["http://x.io/item/1"] \notin visitedPatterns[id]
        /\ visited[id] = { ShopUrl, "http://x.io/item/1", "http://x.io/help",
                           "http://x.io/item/2" }
        /\ currentUrl[id] = "http://x.io/item/2"
        /\ Len(results[id]) = 3

\* C37: every click on Cancel made while the crawl the page started is
\* live (requested, and not yet completed by the server) sends cancel-crawl
\* with the session id of that crawl, also when session-started has not
\* arrived yet and when an earlier crawl has completed
C37_CancelCarriesOwnId ==
    \A k \in 1..Len(client.clicks) :
        client.clicks[k].live =>
            client.clicks[k].sent = client.clicks[k].crawl

\* the socket that started the session of id is gone
Unobserved(id) == Started(id) /\ ~client.connected

\* C38: the step of a disconnect leaves the registry, the session objects
\* and the state of every crawl as they are; a session whose observer is
\* gone and that is not cancelled leaves its loop only with the queue empty
\* or the budget reached; and once its task has ended its summary is on
\* disk, unless the session was deleted, and it is out of the registry
C38_DisconnectChangesNothing ==
    /\ [](\A id \in SessionIds :
             (Unobserved(id) /\ pc[id] \in Ended) =>
                 /\ id \notin activeSessions
                 /\ sessionDir[id] => summary[id].written)
    /\ [][ /\ client'.connected # client.connected =>
                UNCHANGED << activeSessions, session, sessionDir, crawlVars >>
           /\ \A id \in SessionIds :
                ( /\ Unobserved(id)
                  /\ AtLoopTop(id)
                  /\ pc'[id] = "closing"
                  /\ ~session[id].cancelled ) =>
                    \/ queue[id] = << >>
                    \/ Cardinality(visited[id]) = session[id].options.maxPages
         ]_vars

\* the outcome events of a video session
VideoOutcomes(id) ==
    EventsNamed(id, "video-complete") \cup EventsNamed(id, "video-error")

\* C39: a video session never has both 'video-complete' and 'video-error';
\* when its task has ended it has exactly one of them and is out of the
\* registry, also when writing the summary failed after 'video-complete'
C39_OneVideoOutcome ==
    \A id \in PairIds :
        /\ Cardinality(VideoOutcomes(id)) <= 1
        /\ pc[id] \in Ended =>
              /\ Cardinality(VideoOutcomes(id)) = 1
              /\ id \notin activeSessions

=============================================================================
